---------------------------- MODULE Spec2Model ----------------------------
(***************************************************************************)
(* A model of the deployment orchestration core of hostbridge-mcp / arc:   *)
(*   - the credential stores (arc.credentials.CredentialsManager and       *)
(*     hostbridge.credentials.CredentialsManager, file and keyring         *)
(*     backends),                                                          *)
(*   - the capability registries (FrameworkManager, HostingProviderFactory)*)
(*   - the deployment pipeline (ArcServer.deploy_framework).               *)
(*                                                                         *)
(* Python strings that the code transforms character by character          *)
(* (provider and framework identifiers) are sequences of one-character     *)
(* strings, so that lower() and replace("-", "_") are computed, not        *)
(* assumed.  Optional values are sequences of length 0 (None) or 1.        *)
(***************************************************************************)
EXTENDS Integers, Sequences, FiniteSets, TLC

\* ------------------------------------------------------------------ bounds

\* number of pipeline invocations that may be in flight together
NumRuns == 2

\* number of distinct secret strings a credential field may hold
NumSecrets == 1

\* longest prefix of a serialized bundle that a failing write leaves behind
MaxPartial == 0

\* ------------------------------------------------------------------ state

VARIABLES
  \* the credential store
  manager,      \* which CredentialsManager class was constructed: "arc" | "hostbridge"
  use_keyring,  \* hostbridge: self.use_keyring
  files,        \* the credential files: file key -> text (a key outside DOMAIN has no file)
  keyring,      \* the system keyring: entry key -> text
  last,         \* the last credential operation and what it returned
  \* the registries
  providers,    \* HostingProviderFactory._providers: name -> provider class
  handlers,     \* FrameworkManager._handlers: name -> handler class
  \* the invocations of deploy_framework
  pc,           \* where each invocation stands
  request,      \* its arguments
  bundle,       \* the local `credentials`: what get_credentials returned (an option)
  resolved,     \* the provider and handler instances the registries returned
  deploy_result,\* the local `result`: the mapping the provider's deploy returned (an option)
  logs,         \* the local list `logs`
  result,       \* the value returned to the caller: the lines of the returned text
  calls,        \* the collaborator operations invoked so far, with their outcome
  workspace,    \* the TemporaryDirectory of the invocation (an option)
  exc,          \* the exception in flight (an option)
  dirs,         \* the temporary directories that exist, each with the invocation that made it
  \* two hostbridge managers given the same calls, one per backend
  file_store,   \* the files of the manager constructed with use_keyring=False
  key_store,    \* the keyring entries of the manager constructed with use_keyring=True
  both,         \* the last call and what each of the two managers returned
  \* one file-backed store_credentials call, statement by statement
  disk,         \* the credential files with their permissions: key -> [text, mode]
  wr,           \* the store_credentials call in progress and where it stands
  seen,         \* what a get_credentials call made meanwhile returned
  \* registrations after import
  registration, \* the last register call: which registry, the name, the class
  \* the analyze_requirements and troubleshoot_deployment tools
  declared,     \* what get_requirements of the resolved handler and provider return
  analysis,     \* the analyze_requirements call being answered and what it returns
  diagnosis,    \* the troubleshoot_deployment call being answered and what it returns
  \* the uploads of a build directory
  build_path,   \* the build directory and the order in which it lists its entries
  sftp,         \* the remote directory, and the paths the server refuses to stat
  uploads,      \* the provider that uploads, and the uploads made so far
  \* store_credentials calls of several tasks on one file-backed manager
  stores,       \* each task's call and where it stands
  \* the authenticate_provider and check_server_status tools
  status,       \* the call being answered and what it returns
  \* the mapping deploy_framework hands to create_project
  project_config \* the arguments of the call and the mapping built from them

\* the state of the two-backend comparison
backendVars == <<file_store, key_store, both>>

\* the state of the step-by-step store
writeVars == <<disk, wr, seen>>

\* the state of the two stateless tools
toolVars == <<declared, analysis, diagnosis>>

\* the state of the uploads
syncVars == <<build_path, sftp, uploads>>

\* the state outside the credential store, the registries and the pipeline
auxVars ==
  <<backendVars, writeVars, registration, toolVars, syncVars, stores, status,
    project_config>>

\* ------------------------------------------------------------- characters

UpperLetters ==
  <<"A","B","C","D","E","F","G","H","I","J","K","L","M",
    "N","O","P","Q","R","S","T","U","V","W","X","Y","Z">>

LowerLetters ==
  <<"a","b","c","d","e","f","g","h","i","j","k","l","m",
    "n","o","p","q","r","s","t","u","v","w","x","y","z">>

\* the lower-case letter of each upper-case letter
LowerTable ==
  [c \in {UpperLetters[i] : i \in DOMAIN UpperLetters} |->
     LowerLetters[CHOOSE i \in DOMAIN UpperLetters : UpperLetters[i] = c]]

LowerChar(c) == IF c \in DOMAIN LowerTable THEN LowerTable[c] ELSE c

\* str.lower()
Lower(s) == [i \in DOMAIN s |-> LowerChar(s[i])]

\* str.replace("-", "_")
ReplaceHyphen(s) == [i \in DOMAIN s |-> IF s[i] = "-" THEN "_" ELSE s[i]]

\* provider.lower().replace("-", "_")
Normalize(provider) == ReplaceHyphen(Lower(provider))

\* ------------------------------------------------------------ identifiers

netlify == <<"n","e","t","l","i","f","y">>
vercel == <<"v","e","r","c","e","l">>
hostm == <<"h","o","s","t","m">>
shared_hosting == <<"s","h","a","r","e","d","_","h","o","s","t","i","n","g">>
\* "Shared-Hosting": same provider as shared_hosting once normalized
Shared_Hosting_hyphen == <<"S","h","a","r","e","d","-","H","o","s","t","i","n","g">>
\* a provider with no entry in the required-field table
custom == <<"c","u","s","t","o","m">>

wasp == <<"w","a","s","p">>
Wasp_mixed == <<"W","a","s","p">>
rails == <<"r","a","i","l","s">>

\* the provider identifiers callers pass
RawIds == {netlify, Shared_Hosting_hyphen, shared_hosting, custom}

\* the framework identifiers callers pass
FrameworkIds == {Wasp_mixed, rails}

\* ---------------------------------------------------------------- options

None == <<>>
Some(x) == <<x>>

\* --------------------------------------------------------------- bundles

Secrets == {<<"s", ToString(i)>> : i \in 1..NumSecrets}

EmptyBundle == [f \in {} |-> <<>>]

TokenBundle(s) == [f \in {"access_token"} |-> s]

SshBundle == [f \in {"host", "username", "password"} |-> <<"s", "1">>]

\* the field mappings callers pass to store
Bundles ==
  {EmptyBundle, SshBundle} \cup {TokenBundle(s) : s \in Secrets}

\* _get_required_fields: the static per-provider table
provider_fields ==
  (netlify :> {"access_token"}) @@
  (vercel :> {"access_token"}) @@
  (shared_hosting :> {"host", "username", "password"}) @@
  (hostm :> {"api_key"})

RequiredFields(provider) ==
  IF provider \in DOMAIN provider_fields THEN provider_fields[provider] ELSE {}

\* ------------------------------------------------------------------- JSON

\* the order in which a dict's keys are written
FieldOrder == <<"access_token", "api_key", "host", "username", "password">>

RECURSIVE PairsFrom(_, _)
PairsFrom(b, i) ==
  IF i > Len(FieldOrder) THEN <<>>
  ELSE (IF FieldOrder[i] \in DOMAIN b
        THEN << <<"pair", FieldOrder[i]>> \o b[FieldOrder[i]] >>
        ELSE <<>>) \o PairsFrom(b, i + 1)

\* a serializer that loses the last field written
Dumps_drop_last(b) ==
  LET ps == PairsFrom(b, 1)
  IN << <<"{">> >> \o (IF ps = <<>> THEN ps ELSE SubSeq(ps, 1, Len(ps) - 1))
       \o << <<"}">> >>

\* json.dump(credentials, f): the text as a sequence of tokens
Dumps(b) == << <<"{">> >> \o PairsFrom(b, 1) \o << <<"}">> >>

IsPairToken(t) == Len(t) >= 2 /\ t[1] = "pair"

\* json.load accepts the text only when it is a complete object
WellFormed(text) ==
  /\ Len(text) >= 2
  /\ text[1] = <<"{">>
  /\ text[Len(text)] = <<"}">>
  /\ \A i \in 2..(Len(text) - 1) : IsPairToken(text[i])

\* json.load(f): the mapping of a well-formed text (the last pair of a key wins)
Loads(text) ==
  LET idx == 2..(Len(text) - 1)
      keys == {text[i][2] : i \in idx}
      lastOf(k) == CHOOSE i \in idx :
                     /\ text[i][2] = k
                     /\ \A j \in idx : text[j][2] = k => j <= i
  IN [k \in keys |-> SubSeq(text[lastOf(k)], 3, Len(text[lastOf(k)]))]


\* ------------------------------------------------------- credential stores

credVars == <<manager, use_keyring, files, keyring, last>>

\* what the environment does to one write: it succeeds, open() fails, or the
\* write fails after open() truncated the file, leaving `written` tokens
IOOutcomes(text) ==
  {[kind |-> "ok", written |-> 0], [kind |-> "open_fails", written |-> 0]}
    \cup {[kind |-> "write_fails", written |-> k] :
            k \in 0..(IF Len(text) - 1 < MaxPartial THEN Len(text) - 1 ELSE MaxPartial)}

Put(f, key, text) == (key :> text) @@ f

Remove(f, key) == [k \in DOMAIN f \ {key} |-> f[k]]

\* with open(file, "w") as f: json.dump(credentials, f)
\* returns the files afterwards and whether the block completed
WriteFile(fs, key, text, io) ==
  CASE io.kind = "ok" -> [done |-> TRUE, files |-> Put(fs, key, text)]
    [] io.kind = "open_fails" -> [done |-> FALSE, files |-> fs]
    [] io.kind = "write_fails" ->
         [done |-> FALSE, files |-> Put(fs, key, SubSeq(text, 1, io.written))]

\* with open(file, "r") as f: json.load(f), inside try/except -> None
ReadFile(fs, key) ==
  IF key \notin DOMAIN fs THEN None
  ELSE IF WellFormed(fs[key]) THEN Some(Loads(fs[key])) ELSE None

\* arc.credentials.CredentialsManager.store_credentials
ArcStoreCredentials(fs, provider, credentials, io) ==
  LET p == Normalize(provider)
      required_fields == RequiredFields(p)
  IN IF \E field \in required_fields : field \notin DOMAIN credentials
     THEN [ret |-> FALSE, files |-> fs]
     ELSE LET w == WriteFile(fs, p, Dumps(credentials), io)
          IN [ret |-> w.done, files |-> w.files]

\* arc.credentials.CredentialsManager.get_credentials
ArcGetCredentials(fs, provider) == ReadFile(fs, Normalize(provider))

\* arc.credentials.CredentialsManager.delete_credentials
ArcDeleteCredentials(fs, provider) ==
  LET p == Normalize(provider)
  IN IF p \notin DOMAIN fs
     THEN [ret |-> FALSE, files |-> fs]
     ELSE [ret |-> TRUE, files |-> Remove(fs, p)]

\* hostbridge.credentials.CredentialsManager.store_credentials
\* (no normalisation, no validation; keyring.set_password either stores the
\* whole text or raises)
HbStoreCredentials(fs, kr, useK, provider, credentials, io) ==
  IF useK
  THEN IF io.kind = "ok"
       THEN [ret |-> TRUE, files |-> fs, keyring |-> Put(kr, provider, Dumps(credentials))]
       ELSE [ret |-> FALSE, files |-> fs, keyring |-> kr]
  ELSE LET w == WriteFile(fs, provider, Dumps(credentials), io)
       IN [ret |-> w.done, files |-> w.files, keyring |-> kr]

\* hostbridge.credentials.CredentialsManager.get_credentials
HbGetCredentials(fs, kr, useK, provider) ==
  IF useK
  THEN IF provider \in DOMAIN kr /\ kr[provider] # <<>>
       THEN (IF WellFormed(kr[provider]) THEN Some(Loads(kr[provider])) ELSE None)
       ELSE None
  ELSE ReadFile(fs, provider)

\* hostbridge.credentials.CredentialsManager.delete_credentials
\* (keyring.delete_password raises PasswordDeleteError when there is no entry;
\* the file branch unlinks only an existing file and returns True either way)
HbDeleteCredentials(fs, kr, useK, provider) ==
  IF useK
  THEN IF provider \in DOMAIN kr
       THEN [ret |-> TRUE, files |-> fs, keyring |-> Remove(kr, provider)]
       ELSE [ret |-> FALSE, files |-> fs, keyring |-> kr]
  ELSE [ret |-> TRUE,
        files |-> IF provider \in DOMAIN fs THEN Remove(fs, provider) ELSE fs,
        keyring |-> kr]

\* get_credentials of a manager of class m over the given files and keyring
GetCredentialsIn(m, useK, fs, kr, provider) ==
  IF m = "arc"
  THEN ArcGetCredentials(fs, provider)
  ELSE HbGetCredentials(fs, kr, useK, provider)

\* the constructed manager's get_credentials, as a function of the state
GetCredentials(provider) ==
  GetCredentialsIn(manager, use_keyring, files, keyring, provider)

NoOp == [op |-> "none", provider |-> <<>>, fields |-> EmptyBundle,
         ret |-> FALSE, got |-> None]

\* store_credentials(provider, credentials)
StoreCredentials(provider, credentials) ==
  \E io \in IOOutcomes(Dumps(credentials)) :
    LET r == IF manager = "arc"
             THEN ArcStoreCredentials(files, provider, credentials, io)
                    @@ [keyring |-> keyring]
             ELSE HbStoreCredentials(files, keyring, use_keyring,
                                     provider, credentials, io)
    IN /\ files' = r.files
       /\ keyring' = r.keyring
       /\ last' = [op |-> "store", provider |-> provider, fields |-> credentials,
                   ret |-> r.ret, got |-> None]
       /\ UNCHANGED <<manager, use_keyring>>
       /\ UNCHANGED <<providers, handlers>>
       /\ UNCHANGED <<pc, request, bundle, resolved, deploy_result, logs, result, calls,
                      workspace, exc, dirs>>
       /\ UNCHANGED auxVars

\* get_credentials(provider)
FetchCredentials(provider) ==
  /\ last' = [op |-> "get", provider |-> provider, fields |-> EmptyBundle,
              ret |-> FALSE, got |-> GetCredentials(provider)]
  /\ UNCHANGED <<manager, use_keyring, files, keyring>>
  /\ UNCHANGED <<providers, handlers>>
  /\ UNCHANGED <<pc, request, bundle, resolved, deploy_result, logs, result, calls,
                 workspace, exc, dirs>>
  /\ UNCHANGED auxVars

\* delete_credentials(provider)
DeleteCredentials(provider) ==
  LET r == IF manager = "arc"
           THEN ArcDeleteCredentials(files, provider) @@ [keyring |-> keyring]
           ELSE HbDeleteCredentials(files, keyring, use_keyring, provider)
  IN /\ files' = r.files
     /\ keyring' = r.keyring
     /\ last' = [op |-> "delete", provider |-> provider, fields |-> EmptyBundle,
                 ret |-> r.ret, got |-> None]
     /\ UNCHANGED <<manager, use_keyring>>
     /\ UNCHANGED <<providers, handlers>>
     /\ UNCHANGED <<pc, request, bundle, resolved, deploy_result, logs, result, calls,
                    workspace, exc, dirs>>
     /\ UNCHANGED auxVars

\* a freshly constructed manager of either class, on an empty store
InitCredStore ==
  /\ manager \in {"arc", "hostbridge"}
  /\ use_keyring \in (IF manager = "arc" THEN {FALSE} ELSE BOOLEAN)
  /\ files = <<>>
  /\ keyring = <<>>
  /\ last = NoOp


\* -------------------------------------------------------------- registries

regVars == <<providers, handlers>>

\* variant of register that keeps the name as given
Register_keep_case(registry, name, class) == Put(registry, name, class)

\* HostingProviderFactory.register / FrameworkManager.register
Register(registry, name, class) == Put(registry, Lower(name), class)

\* HostingProviderFactory.get_provider / FrameworkManager.get_framework_handler:
\* an instance of the registered class, or None
Resolve(registry, name) ==
  IF Lower(name) \in DOMAIN registry THEN Some(registry[Lower(name)]) ELSE None

\* the registries once the packages are imported: each module registers itself
InitRegistries ==
  /\ providers =
       Register(Register(Register(Register(<<>>,
         netlify, "NetlifyProvider"),
         shared_hosting, "SharedHostingProvider"),
         vercel, "VercelProvider"),
         hostm, "HostmProvider")
  /\ handlers = Register(<<>>, wasp, "WaspFrameworkHandler")

\* ------------------------------------------------------ provider operations

\* credentials.get(field) is present and a non-empty string
Truthy(credentials, field) ==
  field \in DOMAIN credentials /\ credentials[field] # <<>>

\* the completeness check at the head of each provider's deploy
DeployCredentialsComplete(class, credentials) ==
  CASE class = "NetlifyProvider" -> Truthy(credentials, "access_token")
    [] class = "VercelProvider" -> Truthy(credentials, "token")
    [] class = "SharedHostingProvider" ->
         /\ Truthy(credentials, "host")
         /\ Truthy(credentials, "user")
         /\ (Truthy(credentials, "password") \/ Truthy(credentials, "key_path"))
    [] class = "HostmProvider" ->
         /\ Truthy(credentials, "api_key")
         /\ Truthy(credentials, "account_id")
         /\ Truthy(credentials, "host")
         /\ Truthy(credentials, "user")
         /\ (Truthy(credentials, "password") \/ Truthy(credentials, "key_path"))

\* the completeness check at the head of each provider's check_status
StatusCredentialsComplete(class, credentials) ==
  CASE class = "NetlifyProvider" -> Truthy(credentials, "access_token")
    [] class = "VercelProvider" -> Truthy(credentials, "token")
    [] class = "SharedHostingProvider" ->
         Truthy(credentials, "host") /\ Truthy(credentials, "user")
    [] class = "HostmProvider" ->
         Truthy(credentials, "api_key") /\ Truthy(credentials, "account_id")

\* the texts an underlying tool or a collaborator reports on failure
ErrorTexts == {<<"connection refused">>, <<"quota exceeded">>}

IncompleteCredentials == <<"credentials are incomplete">>

Exception(type, msg) == [type |-> type, msg |-> msg]

\* what create_project and build_project may raise: the handler's own
\* ValueError, or a collaborator's timeout
StageExceptions ==
  {Exception("ValueError", <<"connection refused">>),
   Exception("TimeoutExpired", <<"timed out">>)}

Urls == {<<"https://app.example">>}

\* provider.deploy(credentials, build_dir, config): it raises ValueError on
\* incomplete credentials, and otherwise returns a result mapping; every
\* failure of the upload itself is caught inside deploy and reported in the
\* mapping ("success": False, "error": str(e))
DeployOutcomes(class, credentials) ==
  IF ~DeployCredentialsComplete(class, credentials)
  THEN {[raised |-> Some(Exception("ValueError", IncompleteCredentials)),
         success |-> FALSE, url |-> <<>>, error |-> <<>>]}
  ELSE {[raised |-> None, success |-> TRUE, url |-> u, error |-> <<>>] : u \in Urls}
       \cup {[raised |-> None, success |-> FALSE, url |-> <<>>, error |-> e] :
               e \in ErrorTexts}

\* ---------------------------------------------------------------- pipeline

pipeVars == <<pc, request, bundle, resolved, deploy_result, logs, result, calls,
              workspace, exc, dirs>>

vars == <<manager, use_keyring, files, keyring, last, providers, handlers,
          pc, request, bundle, resolved, deploy_result, logs, result, calls,
          workspace, exc, dirs, auxVars>>

Runs == 1..NumRuns

Line(kind, arg) == [kind |-> kind, arg |-> arg]

Call(stage, ok) == [stage |-> stage, ok |-> ok]

TempNames == {<<"tmp", ToString(i)>> : i \in 1..NumRuns}

NoRequest == [framework |-> <<>>, provider |-> <<>>]

NoResolved == [provider |-> None, handler |-> None]

\* `if not credentials`: None and the empty mapping are both falsy
HasCredentials_always(c) == TRUE

HasCredentials(c) == c # None /\ DOMAIN c[1] # {}

\* `except Exception` variant that only expects the handlers' ValueError
Catches_value_error_only(e) == e.type = "ValueError"

\* `except Exception as e`: every class derived from Exception
Catches(e) ==
  e.type \in {"ValueError", "TimeoutExpired", "OSError", "FileNotFoundError",
              "JSONDecodeError", "CalledProcessError", "TypeError", "KeyError"}

\* variant that reports any returned mapping as a completed deployment
DeployLogLine_ignore_flag(res) == Line("complete", res.url)

\* lines 217-221: the log line for the mapping the provider returned
DeployLogLine(res) ==
  IF res.success THEN Line("complete", res.url)
  ELSE Line("deploy_failed", res.error)

\* variant that returns only the error line
ExceptReturn_error_only(lg, e) == <<Line("error", e.msg)>>

\* lines 227-228: logs.append(f"Error: {str(e)}"); return "\n".join(logs)
ExceptReturn(lg, e) == Append(lg, Line("error", e.msg))

\* lines 180-186: logs = []; fetch the bundle; return early without it
ResolveCredentials(r, framework, provider) ==
  /\ pc[r] = "idle"
  /\ LET c == GetCredentials(provider)
     IN /\ request' = [request EXCEPT ![r] =
                         [framework |-> framework, provider |-> provider]]
        /\ bundle' = [bundle EXCEPT ![r] = c]
        /\ logs' = [logs EXCEPT ![r] = <<>>]
        /\ calls' = [calls EXCEPT ![r] =
                       Append(@, Call("get_credentials", c # None))]
        /\ IF HasCredentials(c)
           THEN /\ pc' = [pc EXCEPT ![r] = "resolve_handlers"]
                /\ UNCHANGED result
           ELSE /\ pc' = [pc EXCEPT ![r] = "done"]
                /\ result' = [result EXCEPT ![r] = <<Line("no_credentials", <<>>)>>]
  /\ UNCHANGED <<resolved, deploy_result, workspace, exc, dirs>>
  /\ UNCHANGED credVars
  /\ UNCHANGED regVars
  /\ UNCHANGED auxVars

\* lines 188-195: look the provider up, then the framework handler
ResolveHandlers(r) ==
  /\ pc[r] = "resolve_handlers"
  /\ LET hosting_provider == Resolve(providers, request[r].provider)
         framework_handler == Resolve(handlers, request[r].framework)
     IN IF hosting_provider = None
        THEN /\ pc' = [pc EXCEPT ![r] = "done"]
             /\ result' = [result EXCEPT ![r] =
                             <<Line("unsupported_provider", request[r].provider)>>]
             /\ UNCHANGED resolved
        ELSE IF framework_handler = None
        THEN /\ pc' = [pc EXCEPT ![r] = "done"]
             /\ result' = [result EXCEPT ![r] =
                             <<Line("unsupported_framework", request[r].framework)>>]
             /\ UNCHANGED resolved
        ELSE /\ pc' = [pc EXCEPT ![r] = "enter_workspace"]
             /\ resolved' = [resolved EXCEPT ![r] =
                               [provider |-> hosting_provider,
                                handler |-> framework_handler]]
             /\ UNCHANGED result
  /\ UNCHANGED <<request, bundle, deploy_result, logs, calls, workspace, exc, dirs>>
  /\ UNCHANGED credVars
  /\ UNCHANGED regVars
  /\ UNCHANGED auxVars

\* lines 198-202: tempfile.TemporaryDirectory() makes a directory that did not
\* exist; the first two lines are logged
EnterWorkspace(r) ==
  /\ pc[r] = "enter_workspace"
  /\ \E project_dir \in TempNames \ {d.name : d \in dirs} :
       /\ dirs' = dirs \cup {[name |-> project_dir, owner |-> r]}
       /\ workspace' = [workspace EXCEPT ![r] = Some(project_dir)]
       /\ logs' = [logs EXCEPT ![r] =
                     @ \o <<Line("created_dir", project_dir), Line("creating", <<>>)>>]
  /\ pc' = [pc EXCEPT ![r] = "create_project"]
  /\ UNCHANGED <<request, bundle, resolved, deploy_result, result, calls, exc>>
  /\ UNCHANGED credVars
  /\ UNCHANGED regVars
  /\ UNCHANGED auxVars

\* variant in which a failed stage is skipped over and the next one runs
StageRaises_and_continues(r, stage, e, next) ==
  /\ calls' = [calls EXCEPT ![r] = Append(@, Call(stage, FALSE))]
  /\ pc' = [pc EXCEPT ![r] = next]
  /\ UNCHANGED <<logs, exc>>

\* a stage call that raises e inside the with block: the statements after it
\* (from `next` on) are not reached, control unwinds through the block's exit
StageRaises(r, stage, e, next) ==
  /\ calls' = [calls EXCEPT ![r] = Append(@, Call(stage, FALSE))]
  /\ exc' = [exc EXCEPT ![r] = Some(e)]
  /\ pc' = [pc EXCEPT ![r] = "leave_workspace"]
  /\ UNCHANGED logs

\* lines 203-210: create_project, then the "Building project..." line
CreateProject(r) ==
  /\ pc[r] = "create_project"
  /\ \/ /\ calls' = [calls EXCEPT ![r] = Append(@, Call("create_project", TRUE))]
        /\ logs' = [logs EXCEPT ![r] = Append(@, Line("building", <<>>))]
        /\ pc' = [pc EXCEPT ![r] = "build_project"]
        /\ UNCHANGED exc
     \/ \E e \in StageExceptions : StageRaises(r, "create_project", e, "build_project")
  /\ UNCHANGED <<request, bundle, resolved, deploy_result, result, workspace, dirs>>
  /\ UNCHANGED credVars
  /\ UNCHANGED regVars
  /\ UNCHANGED auxVars

\* variant without the "Deploying to ..." line
BuildProject_without_line(r) ==
  /\ pc[r] = "build_project"
  /\ \/ /\ calls' = [calls EXCEPT ![r] = Append(@, Call("build_project", TRUE))]
        /\ pc' = [pc EXCEPT ![r] = "deploy"]
        /\ UNCHANGED <<logs, exc>>
     \/ \E e \in StageExceptions : StageRaises(r, "build_project", e, "deploy")
  /\ UNCHANGED <<request, bundle, resolved, deploy_result, result, workspace, dirs>>
  /\ UNCHANGED credVars
  /\ UNCHANGED regVars
  /\ UNCHANGED auxVars

\* lines 211-214: build_project, then the "Deploying to ..." line
BuildProject(r) ==
  /\ pc[r] = "build_project"
  /\ \/ /\ calls' = [calls EXCEPT ![r] = Append(@, Call("build_project", TRUE))]
        /\ logs' = [logs EXCEPT ![r] =
                      Append(@, Line("deploying", request[r].provider))]
        /\ pc' = [pc EXCEPT ![r] = "deploy"]
        /\ UNCHANGED exc
     \/ \E e \in StageExceptions : StageRaises(r, "build_project", e, "deploy")
  /\ UNCHANGED <<request, bundle, resolved, deploy_result, result, workspace, dirs>>
  /\ UNCHANGED credVars
  /\ UNCHANGED regVars
  /\ UNCHANGED auxVars

\* lines 215-221: the provider's deploy and the line for what it returned
Deploy(r) ==
  /\ pc[r] = "deploy"
  /\ \E res \in DeployOutcomes(resolved[r].provider[1], bundle[r][1]) :
       IF res.raised # None
       THEN /\ StageRaises(r, "deploy", res.raised[1], "leave_workspace")
            /\ UNCHANGED deploy_result
       ELSE /\ calls' = [calls EXCEPT ![r] = Append(@, Call("deploy", TRUE))]
            /\ deploy_result' = [deploy_result EXCEPT ![r] = Some(res)]
            /\ logs' = [logs EXCEPT ![r] = Append(@, DeployLogLine(res))]
            /\ pc' = [pc EXCEPT ![r] = "leave_workspace"]
            /\ UNCHANGED exc
  /\ UNCHANGED <<request, bundle, resolved, result, workspace, dirs>>
  /\ UNCHANGED credVars
  /\ UNCHANGED regVars
  /\ UNCHANGED auxVars

\* variant of the with block that removes the directory only on a normal exit
WorkspaceExit_leaks_on_error(ds, ws, e) ==
  IF e = None THEN {d \in ds : d.name # ws} ELSE ds

\* TemporaryDirectory.__exit__: the directory is removed however the block ends
WorkspaceExit(ds, ws, e) == {d \in ds : d.name # ws}

\* the end of the with block and what follows it: the directory is cleaned
\* up, then either `return "\n".join(logs)` (line 223) completes or the
\* exception in flight reaches the except clause (lines 225-228); an
\* exception the clause does not catch reaches the caller
LeaveWorkspace(r) ==
  /\ pc[r] = "leave_workspace"
  /\ dirs' = WorkspaceExit(dirs, workspace[r][1], exc[r])
  /\ IF exc[r] = None
     THEN /\ result' = [result EXCEPT ![r] = logs[r]]
          /\ pc' = [pc EXCEPT ![r] = "done"]
          /\ UNCHANGED logs
     ELSE IF Catches(exc[r][1])
     THEN /\ logs' = [logs EXCEPT ![r] = ExceptReturn(@, exc[r][1])]
          /\ result' = [result EXCEPT ![r] = ExceptReturn(logs[r], exc[r][1])]
          /\ pc' = [pc EXCEPT ![r] = "done"]
     ELSE /\ pc' = [pc EXCEPT ![r] = "escaped"]
          /\ UNCHANGED <<logs, result>>
  /\ UNCHANGED <<request, bundle, resolved, deploy_result, calls, workspace, exc>>
  /\ UNCHANGED credVars
  /\ UNCHANGED regVars
  /\ UNCHANGED auxVars

InitPipeline ==
  /\ pc = [r \in Runs |-> "idle"]
  /\ request = [r \in Runs |-> NoRequest]
  /\ bundle = [r \in Runs |-> None]
  /\ resolved = [r \in Runs |-> NoResolved]
  /\ deploy_result = [r \in Runs |-> None]
  /\ logs = [r \in Runs |-> <<>>]
  /\ result = [r \in Runs |-> <<>>]
  /\ calls = [r \in Runs |-> <<>>]
  /\ workspace = [r \in Runs |-> None]
  /\ exc = [r \in Runs |-> None]
  /\ dirs = {}


\* ------------------------------------------------------------ two backends

\* what a call on the two managers leaves alone
notBackend ==
  <<credVars, regVars, pipeVars, writeVars, registration, toolVars, syncVars, stores, status, project_config>>

\* hostbridge.credentials.CredentialsManager.list_providers: the stems of the
\* *.json files, in the order glob yields them (not modelled), or [] with the
\* keyring
HbListProviders(fs, useK) == IF useK THEN {} ELSE DOMAIN fs

\* what one manager returned: the bool of store and delete, the Optional of
\* get, the names of list_providers
Outcome(ret, got, names) == [ret |-> ret, got |-> got, names |-> names]

NoBoth == [op |-> "none", provider |-> <<>>,
           file |-> Outcome(FALSE, None, {}), keyring |-> Outcome(FALSE, None, {})]

\* store_credentials(provider, credentials) on both managers
BothStore(provider, credentials) ==
  LET io == [kind |-> "ok", written |-> 0]
      f == HbStoreCredentials(file_store, <<>>, FALSE, provider, credentials, io)
      k == HbStoreCredentials(<<>>, key_store, TRUE, provider, credentials, io)
  IN /\ file_store' = f.files
     /\ key_store' = k.keyring
     /\ both' = [op |-> "store", provider |-> provider,
                 file |-> Outcome(f.ret, None, {}),
                 keyring |-> Outcome(k.ret, None, {})]
     /\ UNCHANGED notBackend

\* get_credentials(provider) on both managers
BothGet(provider) ==
  /\ both' = [op |-> "get", provider |-> provider,
              file |-> Outcome(FALSE, HbGetCredentials(file_store, <<>>, FALSE, provider), {}),
              keyring |-> Outcome(FALSE, HbGetCredentials(<<>>, key_store, TRUE, provider), {})]
  /\ UNCHANGED <<file_store, key_store>>
  /\ UNCHANGED notBackend

\* delete_credentials(provider) on both managers
BothDelete(provider) ==
  LET f == HbDeleteCredentials(file_store, <<>>, FALSE, provider)
      k == HbDeleteCredentials(<<>>, key_store, TRUE, provider)
  IN /\ file_store' = f.files
     /\ key_store' = k.keyring
     /\ both' = [op |-> "delete", provider |-> provider,
                 file |-> Outcome(f.ret, None, {}),
                 keyring |-> Outcome(k.ret, None, {})]
     /\ UNCHANGED notBackend

\* list_providers() on both managers
BothList ==
  /\ both' = [op |-> "list", provider |-> <<>>,
              file |-> Outcome(FALSE, None, HbListProviders(file_store, FALSE)),
              keyring |-> Outcome(FALSE, None, HbListProviders(key_store, TRUE))]
  /\ UNCHANGED <<file_store, key_store>>
  /\ UNCHANGED notBackend

\* two managers constructed on empty storage
InitBackends ==
  /\ file_store = <<>>
  /\ key_store = <<>>
  /\ both = NoBoth

\* no credential operation of the single manager is called
CredStoreIdle ==
  /\ manager = "hostbridge"
  /\ use_keyring = FALSE
  /\ files = <<>>
  /\ keyring = <<>>
  /\ last = NoOp

\* ------------------------------------------- a file-backed store, by steps

\* what the statements of a store leave alone
notWrite ==
  <<credVars, regVars, pipeVars, backendVars, registration, toolVars, syncVars, stores, status, project_config>>

\* the permissions open(file, "w") gives a file it creates: 0o666 masked by
\* the umask of the process (022 or 077)
CreateModes == {"0644", "0600"}

\* os.chmod(file, 0o600)
OwnerOnly == "0600"

\* the file a manager of class m uses for a provider
StoreKey(m, provider) == IF m = "arc" THEN Normalize(provider) ELSE provider

\* the texts of the files, as the reading side sees them
Texts(d) == [k \in DOMAIN d |-> d[k].text]

\* the providers and bundles of the step-by-step store
StepIds == {netlify, custom}

NoWrite == [pc |-> "idle", provider |-> <<>>, fields |-> EmptyBundle,
            old |-> None, ret |-> FALSE]

NoSeen == [provider |-> <<>>, got |-> None, racing |-> FALSE,
           old |-> None, new |-> None]

\* store_credentials is called: the arc manager validates the required
\* fields first and returns False without touching the file
BeginStore(provider, credentials) ==
  /\ wr.pc \in {"idle", "done"}
  /\ LET rejected == /\ manager = "arc"
                     /\ \E field \in RequiredFields(Normalize(provider)) :
                          field \notin DOMAIN credentials
     IN wr' = [pc |-> IF rejected THEN "done" ELSE "open",
               provider |-> provider, fields |-> credentials,
               old |-> ReadFile(Texts(disk), StoreKey(manager, provider)),
               ret |-> FALSE]
  /\ UNCHANGED <<disk, seen>>
  /\ UNCHANGED notWrite

\* open(file, "w"): an existing file is truncated and keeps its permissions,
\* a missing one is created empty with the permissions the umask leaves
OpenForWrite ==
  /\ wr.pc = "open"
  /\ LET key == StoreKey(manager, wr.provider)
     IN IF key \in DOMAIN disk
        THEN disk' = [disk EXCEPT ![key].text = <<>>]
        ELSE \E mode \in CreateModes :
               disk' = Put(disk, key, [text |-> <<>>, mode |-> mode])
  /\ wr' = [wr EXCEPT !.pc = "dump"]
  /\ UNCHANGED seen
  /\ UNCHANGED notWrite

\* json.dump(credentials, f) and the end of the with block: the buffered text
\* reaches the file when it is closed
DumpAndClose ==
  /\ wr.pc = "dump"
  /\ disk' = [disk EXCEPT ![StoreKey(manager, wr.provider)].text = Dumps(wr.fields)]
  /\ wr' = [wr EXCEPT !.pc = "chmod"]
  /\ UNCHANGED seen
  /\ UNCHANGED notWrite

\* os.chmod(file, 0o600); return True
Chmod ==
  /\ wr.pc = "chmod"
  /\ disk' = [disk EXCEPT ![StoreKey(manager, wr.provider)].mode = OwnerOnly]
  /\ wr' = [wr EXCEPT !.pc = "done", !.ret = TRUE]
  /\ UNCHANGED seen
  /\ UNCHANGED notWrite

\* get_credentials(provider), called by another task at any moment
GetMeanwhile(provider) ==
  /\ LET racing == /\ wr.pc \in {"dump", "chmod"}
                   /\ StoreKey(manager, provider) = StoreKey(manager, wr.provider)
     IN seen' = [provider |-> provider,
                 got |-> ReadFile(Texts(disk), StoreKey(manager, provider)),
                 racing |-> racing,
                 old |-> IF racing THEN wr.old ELSE None,
                 new |-> IF racing THEN Some(wr.fields) ELSE None]
  /\ UNCHANGED <<disk, wr>>
  /\ UNCHANGED notWrite

\* no store is in progress and there are no files
WriteIdle ==
  /\ disk = <<>>
  /\ wr = NoWrite
  /\ seen = NoSeen

\* a file-backed manager of either class, on an empty store
InitWriteSteps ==
  /\ manager \in {"arc", "hostbridge"}
  /\ use_keyring = FALSE
  /\ files = <<>>
  /\ keyring = <<>>
  /\ last = NoOp
  /\ WriteIdle

\* ------------------------------------------------- registering at run time

\* what a register call leaves alone
notRegistry ==
  <<credVars, pipeVars, backendVars, writeVars, toolVars, syncVars, stores, status, project_config>>

\* the names and classes registered after import
RegNames == {wasp, Wasp_mixed, rails}

Classes == {"WaspFrameworkHandler", "DemoHandler", "DemoProvider"}

NoRegistration == [registry |-> "none", name |-> <<>>, class |-> ""]

\* get_available_providers / get_available_frameworks: a copy of the mapping
Enumerate(registry) == registry

\* HostingProviderFactory.register(provider_name, provider_class)
RegisterProvider(name, class) ==
  /\ providers' = Register(providers, name, class)
  /\ registration' = [registry |-> "providers", name |-> name, class |-> class]
  /\ UNCHANGED handlers
  /\ UNCHANGED notRegistry

\* FrameworkManager.register(name, handler_class)
RegisterFramework(name, class) ==
  /\ handlers' = Register(handlers, name, class)
  /\ registration' = [registry |-> "handlers", name |-> name, class |-> class]
  /\ UNCHANGED providers
  /\ UNCHANGED notRegistry

\* nothing was registered after import
RegistrationIdle == registration = NoRegistration

\* ------------------------------------------------- requirement analysis

\* what a call of one of the two tools leaves alone
notTools ==
  <<credVars, regVars, pipeVars, backendVars, writeVars, registration, syncVars, stores, status, project_config>>

\* the longest "required" list a framework declares
MaxRequired == 2

\* capability strings, character by character
postgresql == <<"p","o","s","t","g","r","e","s","q","l">>
mysql == <<"m","y","s","q","l">>
node == <<"n","o","d","e">>
node_16 == <<"n","o","d","e"," ",">","="," ","1","6">>
go == <<"g","o">>
django == <<"d","j","a","n","g","o">>

\* the entries a "required" list is made of
ReqEntries == {postgresql, node_16, go}

RECURSIVE SeqsUpTo(_, _)
\* the sequences over S of length at most n
SeqsUpTo(S, n) ==
  IF n = 0 THEN {<<>>}
  ELSE LET shorter == SeqsUpTo(S, n - 1)
       IN shorter \cup {Append(q, x) : q \in shorter, x \in S}

\* framework_reqs["required"]
RequiredLists == SeqsUpTo(ReqEntries, MaxRequired)

\* provider_reqs: without a "supported" key (None), or with the list
SupportedOptions ==
  {None, Some(<<>>), Some(<<mysql>>), Some(<<node, django>>),
   Some(<<mysql, postgresql, node_16>>)}

\* the characters str.split() splits on
Whitespace == {" ", "\t", "\n"}

\* req.split()[0]: the first run of non-whitespace characters; IndexError
\* (None here) when there is none
FirstToken(req) ==
  LET starts == {i \in DOMAIN req : req[i] \notin Whitespace}
  IN IF starts = {} THEN None
     ELSE LET a == CHOOSE i \in starts : \A j \in starts : i <= j
              stops == {i \in DOMAIN req : i > a /\ req[i] \in Whitespace}
              b == IF stops = {} THEN Len(req) + 1
                   ELSE CHOOSE i \in stops : \A j \in stops : i <= j
          IN Some(SubSeq(req, a, b - 1))

\* variant that keeps the version suffix
ReqName_keep_version(req) == Some(req)

\* line 149: req.split()[0] if " " in req else req
ReqName(req) ==
  IF \E i \in DOMAIN req : req[i] = " " THEN FirstToken(req) ELSE Some(req)

\* variant that looks for a at the start of b only
IsSubstring_at_start(a, b) ==
  Len(a) <= Len(b) /\ \A i \in DOMAIN a : b[i] = a[i]

\* a in b, for strings: a occurs in b as a contiguous run
IsSubstring(a, b) ==
  \E off \in 0..(Len(b) - Len(a)) : \A i \in DOMAIN a : b[off + i] = a[i]

\* r in l, for a list
InList(r, l) == \E i \in DOMAIN l : l[i] = r

Issue(provider, req_name, framework) ==
  [provider |-> provider, missing |-> req_name, framework |-> framework]

RECURSIVE CompatibilityIssues(_, _, _, _)
\* lines 146-153: the loop over framework_reqs.get("required", []); the
\* result is None when req.split()[0] raises
CompatibilityIssues(required, supported, provider, framework) ==
  IF required = <<>> THEN Some(<<>>)
  ELSE LET n == Len(required)
           earlier == CompatibilityIssues(SubSeq(required, 1, n - 1), supported,
                                          provider, framework)
           req == required[n]
       IN IF earlier = None THEN None
          ELSE IF supported # None /\ ~InList(req, supported[1])
          THEN LET req_name == ReqName(req)
               IN IF req_name = None THEN None
                  ELSE IF ~\E i \in DOMAIN supported[1] :
                             IsSubstring(req_name[1], supported[1][i])
                  THEN Some(Append(earlier[1], Issue(provider, req_name[1], framework)))
                  ELSE earlier
          ELSE earlier

NoDiagnosis == [kind |-> "none", framework |-> <<>>, provider |-> <<>>,
                error_logs |-> <<>>, suggestions |-> <<>>]

NoAnalysis == [kind |-> "none", framework |-> <<>>, provider |-> <<>>,
               issues |-> <<>>]

\* analyze_requirements(framework, provider), lines 127-162
AnalyzeRequirements(framework, provider) ==
  /\ LET framework_handler == Resolve(handlers, framework)
         hosting_provider == Resolve(providers, provider)
         issues == CompatibilityIssues(declared.required, declared.supported,
                                       provider, framework)
     IN analysis' =
          [framework |-> framework, provider |-> provider,
           kind |-> IF framework_handler = None THEN "unsupported_framework"
                    ELSE IF hosting_provider = None THEN "unsupported_provider"
                    ELSE IF issues = None THEN "failed"
                    ELSE "report",
           issues |-> IF framework_handler # None /\ hosting_provider # None
                         /\ issues # None
                      THEN issues[1] ELSE <<>>]
  /\ diagnosis' = NoDiagnosis
  /\ UNCHANGED declared
  /\ UNCHANGED notTools

\* ------------------------------------------------------------ diagnostics

\* lines 248-259: the patterns of every framework and provider, in the order
\* the dictionary declares them
common_issues ==
  << [pattern |-> <<"E","A","C","C","E","S">>,
      solution |-> "Permission denied. Check if you have the necessary permissions."],
     [pattern |-> <<"E","C","O","N","N","R","E","F","U","S","E","D">>,
      solution |-> "Connection refused. The server might be down or unreachable."],
     [pattern |-> <<"n","p","m"," ","E","R","R","!">>,
      solution |-> "NPM dependency installation failed. Check package.json."],
     [pattern |-> <<"D","A","T","A","B","A","S","E","_","U","R","L">>,
      solution |-> "Database URL is missing or invalid."],
     [pattern |-> <<"O","u","t"," ","o","f"," ","m","e","m","o","r","y">>,
      solution |-> "The server ran out of memory. Consider upgrading your plan."],
     [pattern |-> <<"c","o","m","m","a","n","d"," ","n","o","t"," ","f","o","u","n","d">>,
      solution |-> "Required command not found. Make sure all dependencies are installed."],
     [pattern |-> <<"t","i","m","e","o","u","t">>,
      solution |-> "Operation timed out. Check your network connection or server response time."],
     [pattern |-> <<"F","A","T","A","L"," ","E","R","R","O","R",":"," ","I","n","e","f","f","e","c","t","i","v","e"," ","m","a","r","k","-","c","o","m","p","a","c","t","s">>,
      solution |-> "Node.js memory limit exceeded. Try allocating more memory."],
     [pattern |-> <<"c","e","r","t","i","f","i","c","a","t","e">>,
      solution |-> "SSL certificate issue. Check your SSL configuration."],
     [pattern |-> <<"p","o","r","t"," ","i","s"," ","a","l","r","e","a","d","y"," ","i","n"," ","u","s","e">>,
      solution |-> "Port conflict. Another service is using the required port."] >>

wasp_issues ==
  << [pattern |-> <<"E","r","r","o","r",":"," ","C","a","n","n","o","t"," ","f","i","n","d"," ","m","o","d","u","l","e">>,
      solution |-> "Missing Node.js module. Try running 'npm install' in your project."],
     [pattern |-> <<"s","p","a","w","n"," ","w","a","s","p"," ","E","N","O","E","N","T">>,
      solution |-> "Wasp CLI not found. Make sure it's installed and in your PATH."],
     [pattern |-> <<".","w","a","s","p","/","b","u","i","l","d">>,
      solution |-> "Build directory not found. Make sure the Wasp build was successful."] >>

netlify_issues ==
  << [pattern |-> <<"d","e","p","l","o","y"," ","u","p","l","o","a","d"," ","m","i","s","s","i","n","g">>,
      solution |-> "Upload failed. Check your internet connection."],
     [pattern |-> <<"E","r","r","o","r",":"," ","N","o","t"," ","a","u","t","h","o","r","i","z","e","d">>,
      solution |-> "Authentication error. Check your Netlify token."],
     [pattern |-> <<"E","r","r","o","r",":"," ","S","i","t","e"," ","n","o","t"," ","f","o","u","n","d">>,
      solution |-> "Specified site doesn't exist. Check the site name."] >>

vercel_issues ==
  << [pattern |-> <<"E","r","r","o","r",":"," ","T","h","e"," ","p","a","t","h"," ","y","o","u","'","r","e"," ","t","r","y","i","n","g"," ","t","o"," ","d","e","p","l","o","y">>,
      solution |-> "Invalid project structure for Vercel."],
     [pattern |-> <<"E","r","r","o","r",":"," ","N","o"," ","a","u","t","h","o","r","i","z","a","t","i","o","n"," ","t","o","k","e","n">>,
      solution |-> "Missing Vercel token. Check your authentication."],
     [pattern |-> <<"E","r","r","o","r",":"," ","I","n","v","a","l","i","d"," ","p","r","o","j","e","c","t"," ","s","e","t","t","i","n","g","s">>,
      solution |-> "Project configuration not compatible with Vercel."] >>

shared_hosting_issues ==
  << [pattern |-> <<"s","s","h",":"," ","c","o","n","n","e","c","t"," ","t","o"," ","h","o","s","t">>,
      solution |-> "SSH connection failed. Check hostname and credentials."],
     [pattern |-> <<"P","e","r","m","i","s","s","i","o","n"," ","d","e","n","i","e","d">>,
      solution |-> "Access denied. Check your SSH credentials and file permissions."],
     [pattern |-> <<"N","o"," ","s","p","a","c","e"," ","l","e","f","t"," ","o","n"," ","d","e","v","i","c","e">>,
      solution |-> "Server has run out of disk space."] >>

hostm_issues ==
  << [pattern |-> <<"A","P","I"," ","r","a","t","e"," ","l","i","m","i","t"," ","e","x","c","e","e","d","e","d">>,
      solution |-> "Too many API requests. Wait and try again later."],
     [pattern |-> <<"D","o","m","a","i","n"," ","n","o","t"," ","c","o","n","f","i","g","u","r","e","d">>,
      solution |-> "The domain is not properly set up on Hostm."],
     [pattern |-> <<"A","c","c","o","u","n","t"," ","s","u","s","p","e","n","d","e","d">>,
      solution |-> "Your Hostm account may be suspended."] >>

\* lines 262-268 and 271-292: the tables by framework and by provider
framework_issues == (wasp :> wasp_issues)

provider_issues ==
  (netlify :> netlify_issues) @@ (vercel :> vercel_issues)
    @@ (shared_hosting :> shared_hosting_issues) @@ (hostm :> hostm_issues)

\* the error_logs texts the tool is called with
ErrorLogs ==
  {<<>>,
   <<"c","o","n","n","e","c","t"," ","E","C","O","N","N","R","E","F","U","S","E","D"," ","1","2","7",".","0",".","0",".","1">>,
   <<"n","p","m"," ","E","R","R","!"," ","t","i","m","e","o","u","t">>,
   <<"s","p","a","w","n"," ","w","a","s","p"," ","E","N","O","E","N","T",":"," ","c","o","m","m","a","n","d"," ","n","o","t"," ","f","o","u","n","d">>,
   <<"E","r","r","o","r",":"," ","N","o","t"," ","a","u","t","h","o","r","i","z","e","d">>,
   <<"s","s","h",":"," ","P","e","r","m","i","s","s","i","o","n"," ","d","e","n","i","e","d">>,
   <<"e","x","i","t"," ","s","t","a","t","u","s"," ","1">>,
   <<"n","p","m"," ","E","R","R","!"," ","t","i","m","e","o","u","t"," ","s","p","a","w","n"," ","w","a","s","p"," ","E","N","O","E","N","T"," ","E","r","r","o","r",":"," ","N","o","t"," ","a","u","t","h","o","r","i","z","e","d">>}

\* the framework and provider identifiers the tool is called with
DiagnoseFrameworks == {wasp, Wasp_mixed, rails}

DiagnoseProviders == {netlify, shared_hosting, custom}

Suggestion(table, entry) ==
  [table |-> table, pattern |-> entry.pattern, solution |-> entry.solution]

RECURSIVE Matches(_, _, _)
\* the loop over one table: a suggestion for every pattern in error_logs
Matches(table, entries, error_logs) ==
  IF entries = <<>> THEN <<>>
  ELSE LET n == Len(entries)
           earlier == Matches(table, SubSeq(entries, 1, n - 1), error_logs)
       IN IF IsSubstring(entries[n].pattern, error_logs)
          THEN Append(earlier, Suggestion(table, entries[n]))
          ELSE earlier

\* variant that checks the provider's table before the framework's
Suggestions_provider_first(framework, provider, error_logs) ==
  Matches("common", common_issues, error_logs)
    \o (IF provider \in DOMAIN provider_issues
        THEN Matches("provider", provider_issues[provider], error_logs)
        ELSE <<>>)
    \o (IF framework \in DOMAIN framework_issues
        THEN Matches("framework", framework_issues[framework], error_logs)
        ELSE <<>>)

\* lines 294-313: the three loops
Suggestions(framework, provider, error_logs) ==
  Matches("common", common_issues, error_logs)
    \o (IF framework \in DOMAIN framework_issues
        THEN Matches("framework", framework_issues[framework], error_logs)
        ELSE <<>>)
    \o (IF provider \in DOMAIN provider_issues
        THEN Matches("provider", provider_issues[provider], error_logs)
        ELSE <<>>)

\* troubleshoot_deployment(framework, provider, error_logs), lines 244-321
TroubleshootDeployment(framework, provider, error_logs) ==
  /\ LET suggestions == Suggestions(framework, provider, error_logs)
     IN diagnosis' =
          [framework |-> framework, provider |-> provider,
           error_logs |-> error_logs,
           kind |-> IF suggestions = <<>> THEN "fallback" ELSE "suggestions",
           suggestions |-> suggestions]
  /\ analysis' = NoAnalysis
  /\ UNCHANGED declared
  /\ UNCHANGED notTools

\* the framework and provider identifiers analyze_requirements is called with
AnalyzeFrameworks == {wasp, Wasp_mixed, rails}

AnalyzeProviders == {netlify, custom}

NoDeclared == [required |-> <<>>, supported |-> None]

\* neither tool was called
ToolsIdle ==
  /\ declared = NoDeclared
  /\ analysis = NoAnalysis
  /\ diagnosis = NoDiagnosis

\* the requirement mappings of the registered classes are any of the declared
\* ones; neither tool was called
InitTools ==
  /\ declared \in [required : RequiredLists, supported : SupportedOptions]
  /\ analysis = NoAnalysis
  /\ diagnosis = NoDiagnosis

\* ---------------------------------------------------- directory upload
\* _upload_directory of HostmProvider and of SharedHostingProvider, called by
\* deploy with the build directory and the remote directory of the credentials

notSync ==
  <<credVars, regVars, pipeVars, backendVars, writeVars, registration, toolVars, stores, status, project_config>>

\* how many entries the build directory holds, at most
MaxLocalEntries == 3

\* how many entries the remote directory holds before the first upload, at most
MaxRemoteEntries == 2

\* how many uploads are made one after another
NumSyncs == 2

node_modules == <<"n","o","d","e","_","m","o","d","u","l","e","s">>
dot_git == <<".","g","i","t">>
dot_svn == <<".","s","v","n">>
pycache == <<"_","_","p","y","c","a","c","h","e","_","_">>
dot_htaccess == <<".","h","t","a","c","c","e","s","s">>
dot_env == <<".","e","n","v">>
app == <<"a","p","p">>

\* hostm.py: the directory names `item.name in [...]` skips
ExcludedDirs == {node_modules, dot_git, dot_svn, pycache}

\* the entry names of the build directories and of the remote directories
LocalNames == {node_modules, dot_env, dot_htaccess, app}
RemoteNames == {app}

\* A directory tree is a function from the paths below its root (each a
\* sequence of names) to [kind, content]; every path but the top ones has
\* its parent in the tree, as a directory.  A build file holds a content of
\* its own, written as its path; a remote file holds that or something older.
EmptyTree == <<>>
Old == <<>>
Directory == [kind |-> "dir", content |-> <<>>]
File(content) == [kind |-> "file", content |-> content]
ContentOf(item) == item

Last(path) == path[Len(path)]
Parent(path) == SubSeq(path, 1, Len(path) - 1)

IsDir(tree, path) == path = <<>> \/ (path \in DOMAIN tree /\ tree[path].kind = "dir")

EntriesAt(side, path) ==
  {Directory} \cup
  {File(c) : c \in IF side = "local" THEN {ContentOf(path)} ELSE {Old, ContentOf(path)}}

Slots(side, tree) ==
  {Append(d, n) : d \in {<<>>} \cup {p \in DOMAIN tree : tree[p].kind = "dir"},
                  n \in IF side = "local" THEN LocalNames ELSE RemoteNames}
    \ DOMAIN tree

RECURSIVE TreesUpTo(_, _)
TreesUpTo(side, k) ==
  IF k = 0 THEN {EmptyTree}
  ELSE LET smaller == TreesUpTo(side, k - 1)
       IN smaller \cup
          UNION {UNION {{Put(t, p, e) : e \in EntriesAt(side, p)} : p \in Slots(side, t)}
                   : t \in smaller}

LocalTrees == TreesUpTo("local", MaxLocalEntries)
RemoteTrees == TreesUpTo("remote", MaxRemoteEntries)

\* local_dir.iterdir() yields the entries of a directory in an order the file
\* system chooses; it is the same order each time for an unchanged directory
NameOrder == <<app, dot_htaccess, node_modules, dot_env>>
Reverse(s) == [i \in DOMAIN s |-> s[Len(s) + 1 - i]]
Listings == {NameOrder, Reverse(NameOrder)}
Iterdir(build, local_dir) ==
  SelectSeq(build.listing, LAMBDA n : Append(local_dir, n) \in DOMAIN build.tree)

\* remote paths on which the server refuses a stat
DeniedSets == {{}, {<<app>>}}

\* The SFTP client, as the upload uses it.  st is the upload under way: the
\* remote tree, the requests sent so far, and the exception in flight.
Request(op, path) == [op |-> op, path |-> path]
Sent(st, op, path) == [st EXCEPT !.ops = Append(@, Request(op, path))]
Raise(st, e) == [st EXCEPT !.error = Some(e)]

\* sftp.stat(path): "found", "FileNotFoundError" or "PermissionError"
SftpStat(st, denied, path) ==
  IF path \in denied THEN "PermissionError"
  ELSE IF path \in DOMAIN st.remote /\ IsDir(st.remote, Parent(path)) THEN "found"
  ELSE "FileNotFoundError"

\* sftp.mkdir(path)
SftpMkdir(st, path) ==
  LET sent == Sent(st, "mkdir", path)
  IN IF IsDir(st.remote, Parent(path)) /\ path \notin DOMAIN st.remote
     THEN [sent EXCEPT !.remote = Put(@, path, Directory)]
     ELSE Raise(sent, "IOError")

\* sftp.put(str(item), path)
SftpPut(st, item, path) ==
  LET sent == Sent(st, "put", path)
  IN IF IsDir(st.remote, Parent(path)) /\ ~IsDir(st.remote, path)
     THEN [sent EXCEPT !.remote = Put(@, path, File(ContentOf(item)))]
     ELSE Raise(sent, "IOError")

EnsureDirectory_no_probe(st, denied, path) == SftpMkdir(st, path)

\* variant with `except Exception: pass` around the probe
EnsureDirectory_ignores_errors(st, denied, path) ==
  LET probe == SftpStat(st, denied, path)
      sent == Sent(st, "stat", path)
  IN IF probe = "FileNotFoundError" THEN SftpMkdir(sent, path) ELSE sent

\* try: sftp.stat(...) except FileNotFoundError: sftp.mkdir(...)
EnsureDirectory(st, denied, path) ==
  LET probe == SftpStat(st, denied, path)
      sent == Sent(st, "stat", path)
  IN CASE probe = "found" -> sent
       [] probe = "FileNotFoundError" -> SftpMkdir(sent, path)
       [] OTHER -> Raise(sent, probe)

StartsWith(s, prefix) ==
  Len(prefix) <= Len(s) /\ \A i \in DOMAIN prefix : s[i] = prefix[i]

UploadFile_skip_existing(st, item) ==
  IF item \in DOMAIN st.remote THEN st ELSE SftpPut(st, item, item)

\* sftp.put(str(item), os.path.join(remote_dir, item.name))
UploadFile(st, item) == SftpPut(st, item, item)

\* HostmProvider._upload_directory: the loop over the entries `items` that
\* are left of local_dir, the recursive call included
RECURSIVE HostmUploadDirectory(_, _, _, _, _)
HostmUploadDirectory(build, denied, local_dir, items, st) ==
  IF items = <<>> \/ st.error # None THEN st
  ELSE LET item == Append(local_dir, Head(items))
           done ==
             IF build.tree[item].kind = "dir"
             THEN IF Last(item) \in ExcludedDirs THEN st
                  ELSE HostmUploadDirectory(build, denied, item, Iterdir(build, item),
                                            EnsureDirectory(st, denied, item))
             ELSE IF StartsWith(Last(item), <<".">>) /\ Last(item) # dot_htaccess THEN st
                  ELSE UploadFile(st, item)
       IN HostmUploadDirectory(build, denied, local_dir, Tail(items), done)

\* SharedHostingProvider._upload_directory, likewise
RECURSIVE SharedHostingUploadDirectory(_, _, _, _, _)
SharedHostingUploadDirectory(build, denied, local_dir, items, st) ==
  IF items = <<>> \/ st.error # None THEN st
  ELSE LET item == Append(local_dir, Head(items))
           done ==
             IF build.tree[item].kind = "dir"
             THEN SharedHostingUploadDirectory(build, denied, item, Iterdir(build, item),
                                               EnsureDirectory(st, denied, item))
             ELSE UploadFile(st, item)
       IN SharedHostingUploadDirectory(build, denied, local_dir, Tail(items), done)

Started(tree) == [remote |-> tree, ops |-> <<>>, error |-> None]

\* what an upload leaves in the record of the uploads
Run(before, st) ==
  [before |-> before, after |-> st.remote, ops |-> st.ops, error |-> st.error]

Uploaded(st) ==
  /\ sftp' = [sftp EXCEPT !.tree = st.remote]
  /\ uploads' = [uploads EXCEPT !.runs = Append(@, Run(sftp.tree, st))]
  /\ UNCHANGED build_path
  /\ UNCHANGED notSync

\* HostmProvider.deploy: self._upload_directory(sftp, build_path, remote_dir)
HostmUpload ==
  /\ uploads.self = "hostm"
  /\ Len(uploads.runs) < NumSyncs
  /\ Uploaded(HostmUploadDirectory(build_path, sftp.denied, <<>>,
                                   Iterdir(build_path, <<>>), Started(sftp.tree)))

\* SharedHostingProvider.deploy: self._upload_directory(sftp, build_path, remote_dir)
SharedHostingUpload ==
  /\ uploads.self = "shared_hosting"
  /\ Len(uploads.runs) < NumSyncs
  /\ Uploaded(SharedHostingUploadDirectory(build_path, sftp.denied, <<>>,
                                           Iterdir(build_path, <<>>), Started(sftp.tree)))

NoBuild == [tree |-> EmptyTree, listing |-> NameOrder]
NoSftp == [tree |-> EmptyTree, denied |-> {}]
NoUploads == [self |-> "none", runs |-> <<>>]

SyncIdle ==
  /\ build_path = NoBuild
  /\ sftp = NoSftp
  /\ uploads = NoUploads

\* any build directory, any remote directory, either provider; nothing
\* uploaded yet
InitSync ==
  /\ build_path \in [tree : LocalTrees, listing : Listings]
  /\ sftp \in [tree : RemoteTrees, denied : DeniedSets]
  /\ uploads \in [self : {"hostm", "shared_hosting"}, runs : {<<>>}]

\* ------------------------------------------------- stores at the same time
\* store_credentials of a file-backed manager, called by several tasks; the
\* statements are those of the step-by-step store, each task with its own
\* file object

notStores ==
  <<credVars, regVars, pipeVars, backendVars, wr, seen, registration, toolVars,
    syncVars, status, project_config>>

\* how many tasks call store_credentials
NumWriters == 2

Writers == 1..NumWriters

NoStore == [pc |-> "idle", provider |-> <<>>, fields |-> EmptyBundle, ret |-> FALSE]

\* a write of `text` at the start of a file that holds `old`: what lies
\* beyond the end of the written text stays
Overlay(text, old) ==
  text \o (IF Len(old) > Len(text) THEN SubSeq(old, Len(text) + 1, Len(old)) ELSE <<>>)

\* store_credentials is called by task w: the arc manager validates the
\* required fields first and returns False without touching the file
StoreCalled(w, provider, credentials) ==
  /\ stores[w].pc = "idle"
  /\ LET rejected == /\ manager = "arc"
                     /\ \E field \in RequiredFields(Normalize(provider)) :
                          field \notin DOMAIN credentials
     IN stores' = [stores EXCEPT ![w] =
                     [pc |-> IF rejected THEN "done" ELSE "open",
                      provider |-> provider, fields |-> credentials, ret |-> FALSE]]
  /\ UNCHANGED disk
  /\ UNCHANGED notStores

\* open(file, "w") of task w: the file is truncated or created; the file
\* object starts at offset 0
StoreOpens(w) ==
  /\ stores[w].pc = "open"
  /\ LET key == StoreKey(manager, stores[w].provider)
     IN IF key \in DOMAIN disk
        THEN disk' = [disk EXCEPT ![key].text = <<>>]
        ELSE \E mode \in CreateModes :
               disk' = Put(disk, key, [text |-> <<>>, mode |-> mode])
  /\ stores' = [stores EXCEPT ![w].pc = "dump"]
  /\ UNCHANGED notStores

\* json.dump(credentials, f) and the end of the with block of task w: the
\* buffered text is written at the offset of its file object
StoreDumps(w) ==
  /\ stores[w].pc = "dump"
  /\ disk' = [disk EXCEPT ![StoreKey(manager, stores[w].provider)].text =
                            Overlay(Dumps(stores[w].fields), @)]
  /\ stores' = [stores EXCEPT ![w].pc = "chmod"]
  /\ UNCHANGED notStores

\* os.chmod(file, 0o600); return True
StoreReturns(w) ==
  /\ stores[w].pc = "chmod"
  /\ disk' = [disk EXCEPT ![StoreKey(manager, stores[w].provider)].mode = OwnerOnly]
  /\ stores' = [stores EXCEPT ![w].pc = "done", ![w].ret = TRUE]
  /\ UNCHANGED notStores

\* no task has called store_credentials
StoresIdle == stores = [w \in Writers |-> NoStore]

\* ------------------------------------------- authentication and status
\* the authenticate_provider and check_server_status tools of ArcServer

notStatus ==
  <<manager, use_keyring, keyring, last, regVars, pipeVars, backendVars, writeVars,
    registration, toolVars, syncVars, stores, project_config>>

\* the provider identifiers the two tools are called with
StatusIds == {netlify, vercel, shared_hosting, Shared_Hosting_hyphen, hostm, custom}

\* a mapping with exactly the fields the store requires for a provider
ExactBundle(provider) == [f \in RequiredFields(provider) |-> <<"s", "1">>]

\* the field mappings authenticate_provider is called with
StatusBundles == Bundles \cup {ExactBundle(p) : p \in DOMAIN provider_fields}

NoStatus == [tool |-> "none", provider |-> <<>>, credentials |-> None, kind |-> "none"]

\* authenticate_provider(provider, credentials): the text returned tells
\* whether store_credentials returned True
AuthenticateProvider(provider, credentials) ==
  /\ LET r == ArcStoreCredentials(files, provider, credentials,
                                  [kind |-> "ok", written |-> 0])
     IN /\ files' = r.files
        /\ status' = [tool |-> "authenticate_provider", provider |-> provider,
                      credentials |-> Some(credentials),
                      kind |-> IF r.ret THEN "authenticated" ELSE "store_failed"]
  /\ UNCHANGED notStatus

\* check_server_status(provider): "No credentials found", "Unsupported
\* provider", the status mapping, or "Failed to check status" when
\* check_status raises
CheckServerStatus(provider) ==
  /\ LET credentials == GetCredentials(provider)
         hosting_provider == Resolve(providers, provider)
     IN status' =
          [tool |-> "check_server_status", provider |-> provider,
           credentials |-> credentials,
           kind |-> IF ~HasCredentials(credentials) THEN "no_credentials"
                    ELSE IF hosting_provider = None THEN "unsupported_provider"
                    ELSE IF ~StatusCredentialsComplete(hosting_provider[1],
                                                       credentials[1])
                    THEN "failed"
                    ELSE "status"]
  /\ UNCHANGED files
  /\ UNCHANGED notStatus

\* neither tool was called
StatusIdle == status = NoStatus

\* ------------------------------------------------ project configuration
\* lines 203-208 of deploy_framework: the mapping handed to create_project

notConfig ==
  <<credVars, regVars, pipeVars, backendVars, writeVars, registration, toolVars,
    syncVars, stores, status>>

\* the application names and the values of a configuration
AppNames == {"shop", "blog", "demo"}

\* the keys a configuration may hold
ConfigKeys == {"app_name", "template", "database_type"}

\* the configuration mappings deploy_framework is called with
Configs == UNION {[keys -> AppNames] : keys \in SUBSET ConfigKeys}

\* {**a, **b}: the keys of both, the value of b where both have the key
Merge(a, b) == b @@ a

\* project_config = {"app_name": app_name, **config}
ProjectConfig(app_name, config) ==
  Merge([k \in {"app_name"} |-> app_name], config)

NoProjectConfig == [called |-> FALSE, app_name |-> "", config |-> <<>>, passed |-> <<>>]

\* framework_handler.create_project(Path(project_dir), project_config)
BuildProjectConfig(app_name, config) ==
  /\ project_config' = [called |-> TRUE, app_name |-> app_name, config |-> config,
                        passed |-> ProjectConfig(app_name, config)]
  /\ UNCHANGED notConfig

\* deploy_framework was not called
ConfigIdle == project_config = NoProjectConfig

\* the parts a specification does not exercise, at rest
InitAux ==
  /\ InitBackends /\ WriteIdle /\ RegistrationIdle /\ ToolsIdle /\ SyncIdle
  /\ StoresIdle /\ StatusIdle /\ ConfigIdle

\* ---------------------------------------------------------- specifications

\* the store_credentials calls (authenticate_provider) made on the server's
\* store before the pipeline runs; the last one is a write that failed
ProvisioningCalls ==
  << <<custom, EmptyBundle, [kind |-> "ok", written |-> 0]>>,
     <<Shared_Hosting_hyphen, SshBundle, [kind |-> "ok", written |-> 0]>>,
     <<netlify, TokenBundle(<<"s", "1">>), [kind |-> "ok", written |-> 0]>>,
     <<netlify, TokenBundle(<<"s", "1">>), [kind |-> "write_fails", written |-> 0]>> >>

\* the credential files after the first n of these calls
RECURSIVE Provisioned(_)
Provisioned(n) ==
  IF n = 0 THEN <<>>
  ELSE LET c == ProvisioningCalls[n]
       IN ArcStoreCredentials(Provisioned(n - 1), c[1], c[2], c[3]).files

\* ArcServer.__init__: the arc CredentialsManager over the files stored so far
InitArcServer ==
  /\ manager = "arc"
  /\ use_keyring = FALSE
  /\ keyring = <<>>
  /\ last = NoOp
  /\ files \in {Provisioned(n) : n \in 0..Len(ProvisioningCalls)}

Init == InitArcServer /\ InitRegistries /\ InitPipeline /\ InitAux

\* the deploy_framework tool, invoked up to NumRuns times
Next ==
  \E r \in Runs :
    \/ \E framework \in FrameworkIds, provider \in RawIds :
         ResolveCredentials(r, framework, provider)
    \/ ResolveHandlers(r)
    \/ EnterWorkspace(r)
    \/ CreateProject(r)
    \/ BuildProject(r)
    \/ Deploy(r)
    \/ LeaveWorkspace(r)

Spec == Init /\ [][Next]_vars

InitCreds == InitCredStore /\ InitRegistries /\ InitPipeline /\ InitAux

\* the credential operations, called in any order on either manager
NextCreds ==
  \E provider \in RawIds :
    \/ \E fields \in Bundles : StoreCredentials(provider, fields)
    \/ FetchCredentials(provider)
    \/ DeleteCredentials(provider)

SpecCreds == InitCreds /\ [][NextCreds]_vars

InitTwoBackends ==
  /\ CredStoreIdle /\ InitRegistries /\ InitPipeline
  /\ InitBackends /\ WriteIdle /\ RegistrationIdle /\ ToolsIdle /\ SyncIdle
  /\ StoresIdle /\ StatusIdle /\ ConfigIdle

\* the same calls made on a file-backed and a keyring-backed manager
NextTwoBackends ==
  \/ \E provider \in RawIds, fields \in Bundles : BothStore(provider, fields)
  \/ \E provider \in RawIds : BothGet(provider)
  \/ \E provider \in RawIds : BothDelete(provider)
  \/ BothList

SpecTwoBackends == InitTwoBackends /\ [][NextTwoBackends]_vars

InitWrite ==
  /\ InitWriteSteps /\ InitRegistries /\ InitPipeline
  /\ InitBackends /\ RegistrationIdle /\ ToolsIdle /\ SyncIdle
  /\ StoresIdle /\ StatusIdle /\ ConfigIdle

\* store_credentials calls one after another, with get_credentials calls of
\* another task between their statements
NextWrite ==
  \/ \E provider \in StepIds, fields \in Bundles : BeginStore(provider, fields)
  \/ OpenForWrite
  \/ DumpAndClose
  \/ Chmod
  \/ \E provider \in StepIds : GetMeanwhile(provider)

SpecWrite == InitWrite /\ [][NextWrite]_vars

InitRegistry == CredStoreIdle /\ InitRegistries /\ InitPipeline /\ InitAux

\* register calls on either registry, in any order
NextRegistry ==
  \E name \in RegNames, class \in Classes :
    \/ RegisterProvider(name, class)
    \/ RegisterFramework(name, class)

SpecRegistry == InitRegistry /\ [][NextRegistry]_vars

InitToolCalls ==
  /\ CredStoreIdle /\ InitRegistries /\ InitPipeline
  /\ InitBackends /\ WriteIdle /\ RegistrationIdle /\ InitTools /\ SyncIdle
  /\ StoresIdle /\ StatusIdle /\ ConfigIdle

\* the two tools, called in any order with any arguments
NextTools ==
  \/ \E framework \in AnalyzeFrameworks, provider \in AnalyzeProviders :
       AnalyzeRequirements(framework, provider)
  \/ \E framework \in DiagnoseFrameworks, provider \in DiagnoseProviders,
        error_logs \in ErrorLogs :
       TroubleshootDeployment(framework, provider, error_logs)

SpecTools == InitToolCalls /\ [][NextTools]_vars

InitUploads ==
  /\ CredStoreIdle /\ InitRegistries /\ InitPipeline
  /\ InitBackends /\ WriteIdle /\ RegistrationIdle /\ ToolsIdle /\ InitSync
  /\ StoresIdle /\ StatusIdle /\ ConfigIdle

\* the provider's deploy uploads the build directory, then again
NextSync ==
  \/ HostmUpload
  \/ SharedHostingUpload

SpecSync == InitUploads /\ [][NextSync]_vars

InitStores ==
  /\ InitWriteSteps /\ InitRegistries /\ InitPipeline
  /\ InitBackends /\ RegistrationIdle /\ ToolsIdle /\ SyncIdle
  /\ StoresIdle /\ StatusIdle /\ ConfigIdle

\* the tasks run their store_credentials calls statement by statement, in
\* any interleaving
NextStores ==
  \/ \E w \in Writers, provider \in StepIds, fields \in Bundles :
       StoreCalled(w, provider, fields)
  \/ \E w \in Writers : StoreOpens(w)
  \/ \E w \in Writers : StoreDumps(w)
  \/ \E w \in Writers : StoreReturns(w)

SpecStores == InitStores /\ [][NextStores]_vars

\* the tools of an ArcServer constructed over an empty store
InitStatus ==
  /\ manager = "arc" /\ use_keyring = FALSE /\ files = <<>> /\ keyring = <<>>
  /\ last = NoOp
  /\ InitRegistries /\ InitPipeline /\ InitAux

NextStatus ==
  \/ \E provider \in StatusIds, credentials \in StatusBundles :
       AuthenticateProvider(provider, credentials)
  \/ \E provider \in StatusIds : CheckServerStatus(provider)

SpecStatus == InitStatus /\ [][NextStatus]_vars

InitConfig == CredStoreIdle /\ InitRegistries /\ InitPipeline /\ InitAux

NextConfig ==
  \E app_name \in AppNames, config \in Configs : BuildProjectConfig(app_name, config)

SpecConfig == InitConfig /\ [][NextConfig]_vars

\* ------------------------------------------------- reading a returned result

\* the kinds of line that report a failure
FailureKinds ==
  {"no_credentials", "unsupported_provider", "unsupported_framework",
   "error", "deploy_failed"}

\* the returned text reports a completed deployment
IsSuccess(res) == \E i \in DOMAIN res : res[i].kind = "complete"

\* the returned text ends in a line that reports a failure
IsFailure(res) == res # <<>> /\ res[Len(res)].kind \in FailureKinds

IsPrefix(s, t) == Len(s) <= Len(t) /\ \A i \in DOMAIN s : s[i] = t[i]

\* every line of lg is in res, contiguous and in the same order
ContainsInOrder(res, lg) ==
  \E off \in 0..Len(res) :
    /\ off + Len(lg) <= Len(res)
    /\ \A i \in DOMAIN lg : res[off + i] = lg[i]

Returned(r) == pc[r] = "done"

InWorkspace(r) ==
  pc[r] \in {"create_project", "build_project", "deploy", "leave_workspace"}

\* the file the arc manager reads for a provider identifier
HasFile(provider) == Normalize(provider) \in DOMAIN files

\* ------------------------------------------------------------------ claims

StageOrder == <<"get_credentials", "create_project", "build_project", "deploy">>

\* C1: in every run of deploy_framework the stages credentials lookup,
\* create_project, build_project, deploy are invoked at most once each and
\* in that order; a stage is invoked only when every earlier stage returned
\* without error (create_project only after a bundle was found), so once a
\* stage has failed no later stage is invoked and none is invoked again.
C1_StagesOnceInOrder ==
  \A r \in Runs :
    /\ Len(calls[r]) <= Len(StageOrder)
    /\ \A i \in DOMAIN calls[r] :
         /\ calls[r][i].stage = StageOrder[i]
         /\ i < Len(calls[r]) => calls[r][i].ok
    /\ Len(calls[r]) >= 2 => bundle[r] # None

\* one run went through all four stages while another stopped at a failed build
C1_Witness ==
  \E r1, r2 \in Runs :
    /\ Returned(r1) /\ Len(calls[r1]) = 4 /\ calls[r1][4].ok
    /\ Returned(r2) /\ Len(calls[r2]) = 3 /\ ~calls[r2][3].ok

\* C2: when create_project and build_project succeeded and the provider's
\* deploy returned a mapping whose success flag is false, the returned result
\* is a failure, not a success, and contains the error text of the mapping.
C2_ProviderFailureReported ==
  \A r \in Runs :
    (Returned(r) /\ deploy_result[r] # None /\ ~deploy_result[r][1].success)
      => /\ IsFailure(result[r])
         /\ ~IsSuccess(result[r])
         /\ \E i \in DOMAIN result[r] :
              /\ result[r][i].kind = "deploy_failed"
              /\ result[r][i].arg = deploy_result[r][1].error

\* a run has returned after its provider reported "quota exceeded"
C2_Witness ==
  \E r \in Runs :
    /\ Returned(r)
    /\ deploy_result[r] # None
    /\ ~deploy_result[r][1].success
    /\ deploy_result[r][1].error = <<"quota exceeded">>
    /\ calls[r][2].ok /\ calls[r][3].ok

\* C3: when the store holds no bundle for the requested provider, the run
\* ends at once with the "no credentials" message as its whole result, no
\* framework or provider operation is invoked and no workspace is made.
C3_NoCredentialsFailsClosed ==
  \A r \in Runs :
    (pc[r] # "idle" /\ ~HasFile(request[r].provider))
      => /\ Returned(r)
         /\ result[r] = <<Line("no_credentials", <<>>)>>
         /\ IsFailure(result[r])
         /\ calls[r] = <<Call("get_credentials", FALSE)>>
         /\ resolved[r] = NoResolved
         /\ workspace[r] = None
         /\ \A d \in dirs : d.owner # r

\* a run for a provider without a credential file has returned while the
\* store does hold another provider's bundle
C3_Witness ==
  \E r \in Runs :
    /\ Returned(r)
    /\ ~HasFile(request[r].provider)
    /\ files # <<>>
    /\ result[r] = <<Line("no_credentials", <<>>)>>

\* C4: once a run has returned, the workspace directory it made no longer
\* exists, whichever way the run ended; and two runs that are inside their
\* workspaces at the same time never hold the same directory.
C4_WorkspaceReleased ==
  /\ \A r \in Runs : Returned(r) => \A d \in dirs : d.owner # r
  /\ \A r1, r2 \in Runs :
       (r1 # r2 /\ InWorkspace(r1) /\ InWorkspace(r2))
         => workspace[r1] # workspace[r2]
  /\ \A r \in Runs :
       InWorkspace(r) => [name |-> workspace[r][1], owner |-> r] \in dirs

\* a run has returned through the except clause after making a workspace,
\* while another run is inside its own workspace
C4_Witness ==
  \E r1, r2 \in Runs :
    /\ Returned(r1) /\ workspace[r1] # None /\ exc[r1] # None
    /\ pc[r2] = "deploy"

\* C5: no exception of get_credentials, create_project, build_project or
\* deploy reaches the caller: a run in which a stage raised returns a failure
\* whose last line carries the exception's message, and a run whose
\* credential file cannot be read returns the "no credentials" failure.
C5_NoExceptionEscapes ==
  \A r \in Runs :
    /\ pc[r] # "escaped"
    /\ (Returned(r) /\ exc[r] # None)
         => /\ IsFailure(result[r])
            /\ result[r][Len(result[r])] = Line("error", exc[r][1].msg)
    /\ (pc[r] # "idle" /\ HasFile(request[r].provider) /\ bundle[r] = None)
         => /\ Returned(r)
            /\ result[r] = <<Line("no_credentials", <<>>)>>

\* a run has returned after a collaborator's timeout in build_project
C5_Witness ==
  \E r \in Runs :
    /\ Returned(r)
    /\ exc[r] # None
    /\ exc[r][1].type = "TimeoutExpired"
    /\ calls[r][Len(calls[r])] = Call("build_project", FALSE)

\* C6: the log only grows, by appending, and the returned result holds every
\* line of the log in the order appended, whichever stage failed.
C6_LogAppendOnly ==
  /\ [](\A r \in Runs : Returned(r) => ContainsInOrder(result[r], logs[r]))
  /\ [][\A r \in Runs : IsPrefix(logs[r], logs'[r])]_vars

\* a run has returned after deploy raised: the lines of the three earlier
\* stages are in the result before the error line
C6_Witness ==
  \E r \in Runs :
    /\ Returned(r)
    /\ exc[r] # None
    /\ Len(calls[r]) = 4
    /\ Len(logs[r]) = 5
    /\ result[r] = logs[r]

\* there is an entry where a manager of class m reads a provider's bundle
StoredIn(m, useK, fs, kr, provider) ==
  IF m = "arc" THEN Normalize(provider) \in DOMAIN fs
  ELSE IF useK THEN provider \in DOMAIN kr
  ELSE provider \in DOMAIN fs

Stored(provider) == StoredIn(manager, use_keyring, files, keyring, provider)

KnownProvider(provider) == Normalize(provider) \in DOMAIN provider_fields

MissingRequiredField(provider, fields) ==
  \E field \in RequiredFields(Normalize(provider)) : field \notin DOMAIN fields

SameProvider(p, q) == Normalize(p) = Normalize(q)

\* C7: a store for a known provider with a required field absent fails and
\* leaves the store as it was: no file or entry is created or modified.
C7_MissingFieldRejected ==
  [][(/\ last'.op = "store"
      /\ KnownProvider(last'.provider)
      /\ MissingRequiredField(last'.provider, last'.fields))
       => (/\ ~last'.ret
           /\ files' = files
           /\ keyring' = keyring)]_vars

\* C8: get right after a successful store returns exactly the mapping stored
\* (whatever was stored before), and get after a delete returns None.
C8_RoundTrip ==
  /\ (last.op = "store" /\ last.ret)
       => GetCredentials(last.provider) = Some(last.fields)
  /\ last.op = "delete" => GetCredentials(last.provider) = None

\* the three-field bundle has just been stored in the keyring backend
C8_Witness ==
  /\ last.op = "store"
  /\ last.ret
  /\ last.fields = SshBundle
  /\ manager = "hostbridge"
  /\ use_keyring
  /\ Cardinality(DOMAIN keyring) >= 2

\* C9: store, get and delete address a bundle by the normalized identifier:
\* a bundle stored under one identifier is returned by get, and removed by
\* delete, under every identifier with the same normalized form; and get for
\* an identifier without a stored bundle returns None.
C9_NormalizedAddressing ==
  /\ (last.op = "store" /\ last.ret)
       => \A q \in RawIds :
            SameProvider(q, last.provider) => GetCredentials(q) = Some(last.fields)
  /\ (last.op = "delete" /\ last.ret)
       => \A q \in RawIds :
            SameProvider(q, last.provider) => GetCredentials(q) = None
  /\ \A q \in RawIds :
       (\A p \in RawIds : SameProvider(p, q) => ~Stored(p)) => GetCredentials(q) = None

\* C10: delete reports ok only when a bundle was stored for the provider and
\* is removed by the call, reports absent when none was stored, and leaves
\* the bundle of every other provider as it was.
C10_DeleteReportsAbsent ==
  [][last'.op = "delete"
       => (/\ last'.ret
                => /\ Stored(last'.provider)
                   /\ ~StoredIn(manager', use_keyring', files', keyring',
                                last'.provider)
           /\ ~Stored(last'.provider) => ~last'.ret
           /\ \A q \in RawIds :
                ~SameProvider(q, last'.provider)
                  => GetCredentialsIn(manager', use_keyring', files', keyring', q)
                       = GetCredentials(q))]_vars

\* C11: the file backend and the keyring backend return the same outcome for
\* every store, get and delete of every sequence of calls made on both from
\* the empty store, delete of a provider without a bundle included.
C11_BackendsEquivalent ==
  both.op \in {"store", "get", "delete"} => both.file = both.keyring

\* C12: list_providers under the keyring backend returns something other than
\* what the file backend returns when no credentials are stored.
C12_ListingUnsupportedDistinct ==
  (both.op = "list" /\ DOMAIN file_store = {}) => both.keyring # both.file

\* C13: at no moment of a file-backed store does a credential file exist
\* that holds secret content while its permissions are wider than owner
\* read/write.
C13_NoPermissionWindow ==
  \A key \in DOMAIN disk :
    (\E i \in DOMAIN disk[key].text : IsPairToken(disk[key].text[i]))
      => disk[key].mode = OwnerOnly

\* C14: a get that runs while a store for the same provider is in progress
\* returns the complete bundle held before the store (None if there was
\* none) or the complete new bundle, nothing else.
C14_NoHalfWrittenRead ==
  seen.racing => seen.got \in {seen.old, seen.new}

\* the names resolve is asked for: every casing used anywhere in the model
AskedNames ==
  RegNames \cup RawIds \cup {vercel, hostm, <<"N","E","T","L","I","F","Y">>}

\* what register(name, class) does to the registry it is called on
RegisterEffect(before, after, name, class) ==
  /\ \A q \in AskedNames :
       IF Lower(q) = Lower(name)
       THEN Resolve(after, q) = Some(class)
       ELSE Resolve(after, q) = Resolve(before, q)
  /\ DOMAIN Enumerate(after) = DOMAIN Enumerate(before) \cup {Lower(name)}

\* resolve and enumerate on a registry as it stands
RegistryConsistent(registry) ==
  /\ \A k \in DOMAIN Enumerate(registry) :
       /\ Lower(k) = k
       /\ Enumerate(registry)[k] = registry[k]
  /\ \A q \in AskedNames :
       IF Lower(q) \in DOMAIN registry
       THEN Resolve(registry, q) = Some(registry[Lower(q)])
       ELSE Resolve(registry, q) = None

\* C15: register replaces the entry whose name is equal ignoring case, so
\* the last registration wins; resolve returns the registered class for any
\* casing of a registered name and None for an unregistered one; enumerate
\* returns exactly the registered lower-cased names; registering in one
\* registry leaves the other as it was.
C15_RegistryLastWins ==
  /\ [](RegistryConsistent(providers) /\ RegistryConsistent(handlers))
  /\ [][/\ registration'.registry = "providers"
           => /\ RegisterEffect(providers, providers',
                                registration'.name, registration'.class)
              /\ handlers' = handlers
        /\ registration'.registry = "handlers"
           => /\ RegisterEffect(handlers, handlers',
                                registration'.name, registration'.class)
              /\ providers' = providers]_vars

\* "Wasp" was registered again with another class, after "rails" was
\* registered as a provider
C15_Witness ==
  /\ registration = [registry |-> "handlers", name |-> Wasp_mixed,
                     class |-> "DemoHandler"]
  /\ handlers[wasp] = "DemoHandler"
  /\ rails \in DOMAIN providers
  /\ rails \notin DOMAIN handlers

\* a required entry without its version suffix: what precedes the first
\* whitespace character
BaseName(req) ==
  LET ws == {i \in DOMAIN req : req[i] \in Whitespace}
  IN IF ws = {} THEN req
     ELSE SubSeq(req, 1, (CHOOSE i \in ws : \A j \in ws : i <= j) - 1)

RECURSIVE ExpectedUnmet(_, _, _, _)
\* one line, in order, for every required entry whose base name is contained
\* in no entry of the supported list
ExpectedUnmet(required, supported, provider, framework) ==
  IF required = <<>> THEN <<>>
  ELSE LET n == Len(required)
           earlier == ExpectedUnmet(SubSeq(required, 1, n - 1), supported,
                                    provider, framework)
           base == BaseName(required[n])
       IN IF \E i \in DOMAIN supported : IsSubstring(base, supported[i])
          THEN earlier
          ELSE Append(earlier, Issue(provider, base, framework))

C17_ToolsNeverFail ==
  /\ analysis.kind \in {"none", "report"}
  /\ diagnosis.kind \in {"none", "suggestions", "fallback"}

\* the requests of an upload that took effect: all of them, but for the one
\* that raised
Effective(run) ==
  IF run.error = None THEN run.ops ELSE SubSeq(run.ops, 1, Len(run.ops) - 1)

\* the remote paths an upload created or wrote
Written(run) ==
  {Effective(run)[i].path :
     i \in {j \in DOMAIN Effective(run) : Effective(run)[j].op \in {"mkdir", "put"}}}

\* the path has a component that is a directory with an excluded name
UnderExcluded(tree, path) ==
  \E i \in DOMAIN path :
    /\ path[i] \in ExcludedDirs
    /\ tree[SubSeq(path, 1, i)].kind = "dir"

\* the path is a file whose name starts with a dot and is not .htaccess
HiddenFile(tree, path) ==
  /\ tree[path].kind = "file"
  /\ StartsWith(Last(path), <<".">>)
  /\ Last(path) # dot_htaccess

\* the upload sent this request
Requested(run, op, path) == \E j \in DOMAIN run.ops : run.ops[j] = Request(op, path)

\* the number of put requests an upload sent for a path
Puts(run, path) ==
  Cardinality({i \in DOMAIN run.ops : run.ops[i] = Request("put", path)})

\* C18: no upload, by either provider, creates or writes a remote path that
\* has an excluded directory (node_modules, .git, .svn, __pycache__) among
\* its components, or that is a dot-prefixed file other than .htaccess, at
\* whatever depth of the build directory.
C18_NoExcludedUpload ==
  \A i \in DOMAIN uploads.runs :
    \A path \in Written(uploads.runs[i]) :
      /\ ~UnderExcluded(build_path.tree, path)
      /\ ~HiddenFile(build_path.tree, path)

\* C19 as stated: a second upload of the unchanged build directory leaves
\* the remote directory as the first upload left it, and raises nothing,
\* whatever the remote directory held before the first.
C19_IdempotentAsStated ==
  \A i \in DOMAIN uploads.runs :
    i > 1 => /\ uploads.runs[i].after = uploads.runs[i - 1].after
             /\ uploads.runs[i].error = None

\* C19, amended: a second upload of the unchanged build directory leaves the
\* remote directory as the first upload left it; if the first raised
\* nothing, the second raises nothing and creates no directory.
C19_Idempotent ==
  \A i \in DOMAIN uploads.runs :
    i > 1 => /\ uploads.runs[i].after = uploads.runs[i - 1].after
             /\ uploads.runs[i - 1].error = None
                  => /\ uploads.runs[i].error = None
                     /\ \A j \in DOMAIN uploads.runs[i].ops :
                          uploads.runs[i].ops[j].op # "mkdir"

\* hostm uploaded twice without error; the first upload created a directory
\* and changed the remote directory, the second probed that directory and
\* put a file again
C19_Witness ==
  /\ uploads.self = "hostm"
  /\ Len(uploads.runs) = 2
  /\ uploads.runs[1].error = None
  /\ uploads.runs[2].error = None
  /\ uploads.runs[1].after # uploads.runs[1].before
  /\ Requested(uploads.runs[1], "mkdir", <<app>>)
  /\ Requested(uploads.runs[2], "stat", <<app>>)
  /\ \E j \in DOMAIN uploads.runs[2].ops : uploads.runs[2].ops[j].op = "put"

\* C20: after an upload that raised nothing, every file of the build
\* directory that is neither under an excluded directory nor a hidden file
\* is in the remote directory at the same relative path with the content of
\* the build file, and was put exactly once, whatever the remote directory
\* held before.
C20_EveryFilePutOnce ==
  \A i \in DOMAIN uploads.runs :
    uploads.runs[i].error = None =>
      \A path \in DOMAIN build_path.tree :
        ( /\ build_path.tree[path].kind = "file"
          /\ ~UnderExcluded(build_path.tree, path)
          /\ ~HiddenFile(build_path.tree, path) )
        => /\ path \in DOMAIN uploads.runs[i].after
           /\ uploads.runs[i].after[path] = File(ContentOf(path))
           /\ Puts(uploads.runs[i], path) = 1

\* an upload that raised nothing put app/app over a remote file that held
\* the same content already
C20_Witness ==
  /\ Len(uploads.runs) = 1
  /\ uploads.runs[1].error = None
  /\ build_path.tree = Put(Put(EmptyTree, <<app>>, Directory),
                           <<app, app>>, File(ContentOf(<<app, app>>)))
  /\ <<app, app>> \in DOMAIN uploads.runs[1].before
  /\ uploads.runs[1].before[<<app, app>>] = File(ContentOf(<<app, app>>))
  /\ uploads.runs[1].ops = <<Request("stat", <<app>>), Request("put", <<app, app>>)>>

\* the pattern occurs somewhere in the text
OccursIn(pattern, text) ==
  \E i \in 1..Len(text) :
    /\ i + Len(pattern) - 1 <= Len(text)
    /\ SubSeq(text, i, i + Len(pattern) - 1) = pattern

\* the table kept under an identifier, empty when there is none
TableOf(tables, id) == IF id \in DOMAIN tables THEN tables[id] ELSE <<>>

\* one suggestion for every entry of a table whose pattern occurs in the
\* text, in the order of the table
Hits(table, entries, text) ==
  LET hit == SelectSeq(entries, LAMBDA e : OccursIn(e.pattern, text))
  IN [i \in DOMAIN hit |-> Suggestion(table, hit[i])]

ExpectedSuggestions(framework, provider, text) ==
  Hits("common", common_issues, text)
    \o Hits("framework", TableOf(framework_issues, framework), text)
    \o Hits("provider", TableOf(provider_issues, provider), text)

\* C21: troubleshoot_deployment gives one suggestion for every pattern that
\* occurs in the log text: those of the common table, then those of the
\* table of the given framework, then those of the table of the given
\* provider, each group in the order the table declares its patterns, and
\* nothing from any other table.
C21_SuggestionsInTableOrder ==
  diagnosis.kind # "none"
    => diagnosis.suggestions =
         ExpectedSuggestions(diagnosis.framework, diagnosis.provider,
                             diagnosis.error_logs)

\* wasp on netlify with a log that holds two common patterns, one of wasp
\* and one of netlify: four suggestions, in that order
C21_Witness ==
  /\ diagnosis.kind = "suggestions"
  /\ diagnosis.framework = wasp
  /\ diagnosis.provider = netlify
  /\ Len(diagnosis.suggestions) = 4
  /\ diagnosis.suggestions[1] = Suggestion("common", common_issues[3])
  /\ diagnosis.suggestions[2] = Suggestion("common", common_issues[7])
  /\ diagnosis.suggestions[3] = Suggestion("framework", wasp_issues[2])
  /\ diagnosis.suggestions[4] = Suggestion("provider", netlify_issues[2])

\* some pattern of a table that applies to the call occurs in its log text
SomePatternOccurs(d) ==
  \/ \E i \in DOMAIN common_issues : OccursIn(common_issues[i].pattern, d.error_logs)
  \/ \E i \in DOMAIN TableOf(framework_issues, d.framework) :
       OccursIn(framework_issues[d.framework][i].pattern, d.error_logs)
  \/ \E i \in DOMAIN TableOf(provider_issues, d.provider) :
       OccursIn(provider_issues[d.provider][i].pattern, d.error_logs)

ECONNREFUSED == <<"E","C","O","N","N","R","E","F","U","S","E","D">>

\* the only pattern of the common table in the log text is ECONNREFUSED
OnlyConnectionRefused(d) ==
  \A i \in DOMAIN common_issues :
    OccursIn(common_issues[i].pattern, d.error_logs)
      <=> common_issues[i].pattern = ECONNREFUSED

\* C22: troubleshoot_deployment returns the fallback text exactly when no
\* pattern of the common table, of the framework's table or of the
\* provider's table occurs in the log text; otherwise it returns suggestions
\* only.  For a framework and a provider without tables and a log text whose
\* only pattern is ECONNREFUSED, it returns the common suggestion for
\* ECONNREFUSED and nothing else.
C22_FallbackIffNoMatch ==
  diagnosis.kind # "none" =>
    /\ diagnosis.kind = "fallback" <=> ~SomePatternOccurs(diagnosis)
    /\ diagnosis.kind = "fallback" => diagnosis.suggestions = <<>>
    /\ diagnosis.kind = "suggestions" =>
         /\ diagnosis.suggestions # <<>>
         /\ \A i \in DOMAIN diagnosis.suggestions :
              diagnosis.suggestions[i].table \in {"common", "framework", "provider"}
    /\ ( /\ diagnosis.framework \notin DOMAIN framework_issues
         /\ diagnosis.provider \notin DOMAIN provider_issues
         /\ OnlyConnectionRefused(diagnosis) )
       => /\ diagnosis.kind = "suggestions"
          /\ diagnosis.suggestions =
               <<[table |-> "common", pattern |-> ECONNREFUSED,
                  solution |-> "Connection refused. The server might be down or unreachable."]>>

\* rails on custom with a log that holds ECONNREFUSED and no other pattern
C22_Witness ==
  /\ diagnosis.kind = "suggestions"
  /\ diagnosis.framework = rails
  /\ diagnosis.provider = custom
  /\ OccursIn(ECONNREFUSED, diagnosis.error_logs)
  /\ Len(diagnosis.suggestions) = 1
  /\ diagnosis.suggestions[1].pattern = ECONNREFUSED

\* the line logged just before each stage is called
StartLine ==
  ("create_project" :> "creating") @@ ("build_project" :> "building")
    @@ ("deploy" :> "deploying")

\* the call of a stage that this step of invocation r made, if it made one
StageCalled(r) ==
  IF Len(calls'[r]) = Len(calls[r]) + 1
       /\ calls'[r][Len(calls'[r])].stage \in DOMAIN StartLine
  THEN Some(calls'[r][Len(calls'[r])])
  ELSE None

\* C23: every stage that is executed has its own line appended to the log
\* just before it is called, and a line is appended to the log once it has
\* finished: the next line of the pipeline when the stage returned, the
\* error line when it raised.  A run whose three stages all complete has a
\* line after each of them.
C23_LineBeforeAndAfterStage ==
  /\ [][\A r \in Runs :
          StageCalled(r) # None =>
            /\ logs[r] # <<>>
            /\ logs[r][Len(logs[r])].kind = StartLine[StageCalled(r)[1].stage]
            /\ StageCalled(r)[1].ok => Len(logs'[r]) = Len(logs[r]) + 1]_vars
  /\ [](\A r \in Runs :
          ( /\ Returned(r)
            /\ calls[r] # <<>>
            /\ calls[r][Len(calls[r])].stage \in DOMAIN StartLine
            /\ ~calls[r][Len(calls[r])].ok )
          => logs[r][Len(logs[r])].kind = "error")

\* a run whose three stages all completed: the log holds the line before
\* create_project and one line after each stage
C23_Witness ==
  \E r \in Runs :
    /\ Returned(r)
    /\ exc[r] = None
    /\ \A stage \in DOMAIN StartLine :
         \E i \in DOMAIN calls[r] : calls[r][i] = Call(stage, TRUE)
    /\ [i \in DOMAIN logs[r] |-> logs[r][i].kind]
         = <<"created_dir", "creating", "building", "deploying", "complete">>

\* the places of a request among the requests of an upload
Places(run, op, path) == {i \in DOMAIN run.ops : run.ops[i] = Request(op, path)}

\* the directories of the build directory that are not under an excluded one
UploadedDirs(tree) ==
  {d \in DOMAIN tree : tree[d].kind = "dir" /\ ~UnderExcluded(tree, d)}

\* C24: an upload stats the remote counterpart of a directory before it sends
\* anything for what the directory holds; it sends mkdir right after a stat
\* that found nothing and in no other case; a refused stat ends the upload
\* with that error and is its last request; an upload that raised nothing
\* has probed every directory that is not under an excluded one, once.
C24_ProbeBeforeDescending ==
  \A k \in DOMAIN uploads.runs :
    LET run == uploads.runs[k]
        n == Len(run.ops)
    IN /\ \A i \in DOMAIN run.ops :
            LET path == run.ops[i].path
            IN /\ Len(path) > 1 =>
                    \E j \in Places(run, "stat", Parent(path)) : j < i
               /\ run.ops[i].op = "mkdir" =>
                    /\ i > 1 /\ run.ops[i - 1] = Request("stat", path)
                    /\ path \notin DOMAIN run.before
                    /\ path \notin sftp.denied
               /\ run.ops[i].op = "stat" =>
                    IF path \in sftp.denied
                    THEN i = n /\ run.error = Some("PermissionError")
                    ELSE IF path \in DOMAIN run.before
                    THEN Places(run, "mkdir", path) = {}
                    ELSE i < n /\ run.ops[i + 1] = Request("mkdir", path)
       /\ run.error = Some("PermissionError") =>
            n > 0 /\ run.ops[n].op = "stat" /\ run.ops[n].path \in sftp.denied
       /\ run.error = None =>
            \A d \in UploadedDirs(build_path.tree) :
              Cardinality(Places(run, "stat", d)) = 1

\* the server refuses the stat of app after .htaccess was put: the upload
\* ends there, with nothing sent for the file in app
C24_Witness ==
  /\ Len(uploads.runs) = 1
  /\ sftp.denied = {<<app>>}
  /\ <<app, app>> \in DOMAIN build_path.tree
  /\ uploads.runs[1].error = Some("PermissionError")
  /\ uploads.runs[1].ops =
       <<Request("put", <<dot_htaccess>>), Request("stat", <<app>>)>>

\* two tasks are storing into the same file
SameFile(w1, w2) ==
  /\ w1 # w2
  /\ stores[w1].pc # "idle" /\ stores[w2].pc # "idle"
  /\ StoreKey(manager, stores[w1].provider) = StoreKey(manager, stores[w2].provider)

\* C25: two store_credentials calls for the same provider never have the
\* file open for writing at the same time, and when both have returned True
\* get_credentials returns the field mapping of one of them.
C25_OneWriterAtATime ==
  \A w1, w2 \in Writers :
    SameFile(w1, w2) =>
      /\ ~(stores[w1].pc \in {"dump", "chmod"} /\ stores[w2].pc \in {"dump", "chmod"})
      /\ (stores[w1].ret /\ stores[w2].ret) =>
           ReadFile(Texts(disk), StoreKey(manager, stores[w1].provider))
             \in {Some(stores[w1].fields), Some(stores[w2].fields)}

\* check_server_status found a bundle for the identifier it was given
FoundBundle == status.tool = "check_server_status" /\ status.credentials # None

\* C26: a bundle holding exactly the fields the store requires for netlify,
\* vercel, shared_hosting or hostm passes the completeness check of that
\* provider's check_status and deploy.
C26_AcceptedBundleSuffices ==
  ( /\ FoundBundle
    /\ Normalize(status.provider) \in DOMAIN provider_fields
    /\ DOMAIN status.credentials[1] = RequiredFields(Normalize(status.provider)) )
  => /\ status.kind # "failed"
     /\ StatusCredentialsComplete(providers[Normalize(status.provider)],
                                  status.credentials[1])
     /\ DeployCredentialsComplete(providers[Normalize(status.provider)],
                                  status.credentials[1])

\* C27: an identifier under which get_credentials returns the bundle of a
\* registered provider is resolved by the provider registry to that
\* provider, so check_server_status does not answer "Unsupported provider"
\* for it.
C27_StoreAndRegistryAgree ==
  ( /\ FoundBundle
    /\ HasCredentials(status.credentials)
    /\ Normalize(status.provider) \in DOMAIN providers )
  => /\ Resolve(providers, status.provider)
          = Some(providers[Normalize(status.provider)])
     /\ status.kind # "unsupported_provider"

\* C28: check_server_status answers "No credentials found" only when the
\* store holds no bundle for the provider; after a successful store, of an
\* empty mapping too, it goes on to the provider.
C28_NoCredentialsOnlyWhenAbsent ==
  (status.tool = "check_server_status" /\ status.kind = "no_credentials")
    => Normalize(status.provider) \notin DOMAIN files

\* C29: the mapping handed to create_project has the app_name argument of
\* deploy_framework under "app_name", whatever the configuration holds.
C29_AppNameIsArgument ==
  project_config.called
    => /\ "app_name" \in DOMAIN project_config.passed
       /\ project_config.passed["app_name"] = project_config.app_name

\* C30: a store that returns failure leaves the store unchanged whatever the
\* cause: a bundle stored for the provider before the failing call is still
\* returned in full by get afterwards.
C30_FailedStoreKeepsBundle ==
  [][(/\ last'.op = "store"
      /\ ~last'.ret
      /\ GetCredentials(last'.provider) # None)
       => GetCredentialsIn(manager', use_keyring', files', keyring', last'.provider)
            = GetCredentials(last'.provider)]_vars


=============================================================================
